---- MODULE Spec2Model ----
(***************************************************************************)
(* Model of the rhino_mcp command/response bridge.                         *)
(*                                                                         *)
(* Host side (src/rhino_script.py): RhinoMCPServer with its accept loop,   *)
(* one _handle_client thread per accepted connection, and the host's       *)
(* RhinoApp.Idle event on which the handler threads register callbacks.    *)
(* Agent side (src/rhino_mcp/rhino_tools.py): RhinoConnection and the      *)
(* tools of RhinoTools.  The command handlers are applied to scripts and   *)
(* documents in HandlerSpec, and to one document that they and the user    *)
(* change step by step in DocSpec.                                         *)
(*                                                                         *)
(* The bytes of one receive are a Segment: an opening brace, a body and a  *)
(* closing brace, each present or not.  json.loads succeeds on a segment   *)
(* exactly when all three are present and nothing else is.                 *)
(***************************************************************************)
EXTENDS Naturals, Sequences, FiniteSets, TLC

\* ------------------------------------------------------------------ bounds
MaxSend == 2
MaxTicks == 3
MaxCalls == 3
MaxReplies == 3
MaxStmts == 3
MaxDocSteps == 3
MaxStarts == 3

\* Two connections: the concurrency the bridge is specified for.
Conn == {1, 2}

\* ---------------------------------------------------------- wire protocol
Nothing == [type |-> "", code |-> ""]

Cmd(t, c) == [type |-> t, code |-> c]

\* Commands a peer may put on the wire: execute_code with a script that
\* sets result, one whose script raises, and a name outside the table.
Commands ==
    { Cmd("execute_code", "s1"),
      Cmd("execute_code", "boom"),
      Cmd("frobnicate", "") }

Seg(o, b, c, j) == [open |-> o, body |-> b, close |-> c, junk |-> j]

Whole(cmd) == Seg(TRUE, cmd, TRUE, FALSE)
HeadOf(cmd) == Seg(TRUE, cmd, FALSE, FALSE)
TailSeg == Seg(FALSE, Nothing, TRUE, FALSE)
Junk == Seg(FALSE, Nothing, FALSE, TRUE)
NoData == Seg(FALSE, Nothing, FALSE, FALSE)

\* What one recv() of the handler may return.
Segments ==
    { Whole(cmd) : cmd \in Commands }
      \cup { HeadOf(Cmd("execute_code", "s1")), TailSeg, Junk }

\* json.loads(data.decode('utf-8')) succeeds (no ValueError).
Decodable(seg) ==
    seg.open /\ seg.close /\ ~seg.junk /\ seg.body \in Commands

Decode(seg) == seg.body

\* A proper prefix of a Command: its bytes up to, not including, the end.
IsPartial(seg) ==
    seg.open /\ ~seg.close /\ ~seg.junk /\ seg.body \in Commands

Response(s, p) == [status |-> s, payload |-> p]

InvalidJson == Response("error", "Invalid JSON format")

\* ------------------------------------------------------- command dispatch
\* The envelopes capture_rhino_viewport answers with: they have no status.
ImageEnvelope == [type |-> "image", data |-> "jpeg"]
TextEnvelope == [type |-> "text", text |-> "Error capturing viewport: e"]

ExecuteRhinoCode(code) ==
    IF code = "" THEN Response("error", "No code provided")
    ELSE IF code = "boom" THEN Response("error", "boom")
    ELSE Response("success", code)

\* The names execute_command compares command_type with.
DispatchTable ==
    { "get_rhino_scene_info", "_rhino_create_cube", "get_rhino_layers",
      "execute_code", "get_rhino_objects_with_metadata",
      "capture_rhino_viewport", "add_rhino_object_metadata",
      "get_rhino_selected_objects", "grasshopper_add_components",
      "grasshopper_get_definition_info", "grasshopper_run_solver",
      "grasshopper_clear_canvas", "grasshopper_list_available_components" }

UnknownCommand == Response("error", "Unknown command type")

\* A dispatch that lets an unknown name fall into the execute_code branch.
ExecuteCommandNoElse(cmd) ==
    IF cmd.type \in DispatchTable \ {"execute_code"}
    THEN Response("success", cmd.type)
    ELSE ExecuteRhinoCode(cmd.code)

\* execute_command: the if/elif chain over command_type.  Of the handlers
\* execute_code is modelled by what it returns and capture_rhino_viewport
\* by its envelope; the others answer with their name.
ExecuteCommand(cmd) ==
    IF cmd.type = "execute_code" THEN ExecuteRhinoCode(cmd.code)
    ELSE IF cmd.type = "capture_rhino_viewport" THEN ImageEnvelope
    ELSE IF cmd.type \in DispatchTable THEN Response("success", cmd.type)
    ELSE UnknownCommand

\* ------------------------------------------------------------------ state
VARIABLES
    running,        \* RhinoMCPServer.running
    listening,      \* RhinoMCPServer.socket is a bound, listening socket
    hpc,            \* per connection: where its _handle_client thread is
    command,        \* per connection: the closure cell `command`
    idle_handler,   \* per connection: the closure cell `idle_handler`
    clientOpen,     \* per connection: the host's client socket is open
    Idle,           \* the invocation list of the RhinoApp.Idle event
    hostpc,         \* where the host thread is
    pending,        \* handlers of the current tick still to be invoked
    cur,            \* the handler the host is invoking
    arg,            \* the command passed to execute_command
    executing,      \* the threads inside execute_command
    inq,            \* per connection: segments sent by the peer, not yet read
    outq,           \* per connection: Responses written to the connection
    peerOpen,       \* per connection: the peer has not closed its end
    sent,           \* per connection: segments the peer has sent
    ticks,          \* idle ticks fired so far
    runs,           \* per handler: how often the Idle event invoked it
    raised,         \* per handler: how its last invocation's sends ended
    server_thread,  \* RhinoMCPServer.server_thread: 0 is None, else the thread
    apc,            \* per accept thread: where its _server_loop is
    starts,         \* accept threads started so far
    psocket,        \* RhinoConnection.socket: 0 is None, else the socket
    popen,          \* the proxy's sockets that are open
    nsock,          \* sockets the proxy has created so far
    ppc,            \* where the thread calling send_command is
    pbuffer,        \* send_command's local `buffer`
    pin,            \* bytes sent to the proxy's socket, not yet read
    srvOpen,        \* the far end of the proxy's socket is open
    presult,        \* how the last send_command ended
    preturned,      \* the Response the last send_command returned
    pcalls,         \* send_command calls made so far
    preplies,       \* segments sent to the proxy so far
    pmessage,       \* the message of the failure the last call raised
    pelapsed,       \* time.time() - start_time of the receive loop
    pwaited,        \* how long the current recv has been blocked
    ptool,          \* the tool that made the current send_command call
    rhino_connection, \* the global _rhino_connection: 0 is None
    ninst,          \* RhinoConnection objects constructed so far
    hcall,          \* the Command and document a handler is applied to
    hresp,          \* what the handler returned for hcall
    htrace,         \* what the handler touched: objects read, statements run
    hescaped,       \* the handler raised into execute_command's except clause
    scdoc,          \* sc.doc: its objects, its layers and the current layer
    hnow,           \* the host's clock, in seconds
    hsteps          \* commands and edits applied to sc.doc so far

vars == <<running, listening, hpc, command, idle_handler, clientOpen, Idle,
          hostpc, pending, cur, arg, executing, inq, outq, peerOpen, sent,
          ticks, runs, raised, server_thread, apc, starts, psocket, popen, nsock, ppc, pbuffer, pin,
          srvOpen, presult, preturned, pcalls, preplies, pmessage,
          pelapsed, pwaited, ptool, rhino_connection, ninst, hcall, hresp,
          htrace, hescaped, scdoc, hnow, hsteps>>

hostVars == <<running, listening, hpc, command, idle_handler, clientOpen,
              Idle, hostpc, pending, cur, arg, executing, inq, outq,
              peerOpen, sent, ticks, runs, raised, server_thread, apc,
              starts>>

\* The accept threads, followed one by one in ServerSpec.  Elsewhere they
\* are not told apart: Accept(c) stands for whichever thread accepts.
loopVars == <<server_thread, apc, starts>>

proxyVars == <<psocket, popen, nsock, ppc, pbuffer, pin, srvOpen, presult,
               preturned, pcalls, preplies, pmessage, pelapsed, pwaited,
               ptool, rhino_connection, ninst>>

docVars == <<scdoc, hnow, hsteps>>

handlerVars == <<hcall, hresp, htrace, hescaped, docVars>>

\* A handler is the idle_handler closure made for the n-th Command decoded
\* on connection c.  The n-th execute_wrapper is not told apart: every one
\* runs the same code over the same cells (command, client).
HandlerIds == Conn \X (1..MaxSend)

\* The accept threads that start() can make.
Threads == 1..MaxStarts

NoAcceptThread ==
    /\ server_thread = 0
    /\ apc = [t \in Threads |-> "none"]
    /\ starts = 0
NoHandler == <<0, 0>>

\* A socket kept in one place shared by all handler threads: every closure
\* sees the connection accepted last.
ClientLatest(h) ==
    IF \E c \in Conn : hpc[c] # "none"
    THEN CHOOSE c \in Conn :
             hpc[c] # "none" /\ \A d \in Conn : hpc[d] # "none" => d <= c
    ELSE h[1]

\* The socket a handler's closures captured: the `client` argument of the
\* _handle_client call that made them.
Client(h) == h[1]

NoResponse == Response("", "")
NoBytes == [open |-> FALSE, body |-> NoResponse, close |-> FALSE, junk |-> FALSE]

\* No handler has been applied to anything.
NoCall == [type |-> ""]
NoReply == [none |-> TRUE]
NoDocument == [Objects |-> {}, Layers |-> {}, CurrentLayer |-> <<>>]
NoDocumentOpen == scdoc = NoDocument /\ hnow = 0 /\ hsteps = 0
NoHandlerCall ==
    /\ hcall = NoCall /\ hresp = NoReply /\ htrace = {} /\ hescaped = FALSE
    /\ NoDocumentOpen

\* RhinoConnection.__init__: no socket.
ProxyInit ==
    /\ psocket = 0
    /\ popen = {}
    /\ nsock = 0
    /\ ppc = "idle"
    /\ pbuffer = NoBytes
    /\ pin = <<>>
    /\ srvOpen = FALSE
    /\ presult = "none"
    /\ preturned = NoResponse
    /\ pcalls = 0
    /\ preplies = 0
    /\ pmessage = ""
    /\ pelapsed = 0
    /\ pwaited = 0
    /\ ptool = ""
    /\ rhino_connection = 0
    /\ ninst = 0

\* RhinoMCPServer.__init__, no connection and an empty Idle event.
HostInit ==
    /\ running = FALSE
    /\ listening = FALSE
    /\ hpc = [c \in Conn |-> "none"]
    /\ command = [c \in Conn |-> Nothing]
    /\ idle_handler = [c \in Conn |-> 0]
    /\ clientOpen = [c \in Conn |-> FALSE]
    /\ Idle = <<>>
    /\ hostpc = "idle"
    /\ pending = <<>>
    /\ cur = NoHandler
    /\ arg = Nothing
    /\ executing = {}
    /\ inq = [c \in Conn |-> <<>>]
    /\ outq = [c \in Conn |-> <<>>]
    /\ peerOpen = [c \in Conn |-> FALSE]
    /\ sent = [c \in Conn |-> 0]
    /\ ticks = 0
    /\ runs = [h \in HandlerIds |-> 0]
    /\ raised = [h \in HandlerIds |-> "no"]
    /\ NoAcceptThread

Init ==
    /\ ProxyInit
    /\ NoHandlerCall
    /\ HostInit

serverVars == <<running, listening>>
threadVars == <<hpc, command, idle_handler>>
tickVars == <<hostpc, pending, cur, arg, executing, ticks, runs, raised>>
peerVars == <<inq, peerOpen, sent>>

\* ---------------------------------------------------------- server object
\* start(): nothing when already running; a failed bind or listen ends in
\* stop().
Start ==
    /\ IF running
       THEN UNCHANGED serverVars
       ELSE \E ok \in BOOLEAN :
                /\ running' = ok
                /\ listening' = ok
    /\ UNCHANGED <<threadVars, clientOpen, Idle, tickVars, peerVars, outq>>
    /\ UNCHANGED <<loopVars, proxyVars, handlerVars>>

Stop ==
    /\ running' = FALSE
    /\ listening' = FALSE
    /\ UNCHANGED <<threadVars, clientOpen, Idle, tickVars, peerVars, outq>>
    /\ UNCHANGED <<loopVars, proxyVars, handlerVars>>

\* _server_loop: accept a connection and start its handler thread.
Accept(c) ==
    /\ running
    /\ listening
    /\ hpc[c] = "none"
    /\ \A d \in Conn : d < c => hpc[d] # "none"
    /\ hpc' = [hpc EXCEPT ![c] = "loop"]
    /\ clientOpen' = [clientOpen EXCEPT ![c] = TRUE]
    /\ peerOpen' = [peerOpen EXCEPT ![c] = TRUE]
    /\ UNCHANGED <<serverVars, command, idle_handler, Idle, tickVars,
                   inq, sent, outq>>
    /\ UNCHANGED <<loopVars, proxyVars, handlerVars>>

\* ------------------------------------------------------- the environment
RECURSIVE Sum(_, _)
Sum(f, S) ==
    IF S = {} THEN 0
    ELSE LET x == CHOOSE y \in S : TRUE IN f[x] + Sum(f, S \ {x})

\* The peer of connection c writes bytes that one recv will return.
PeerSend(c, seg) ==
    /\ hpc[c] \notin {"none", "done"}
    /\ peerOpen[c]
    /\ Sum(sent, Conn) < MaxSend
    /\ inq' = [inq EXCEPT ![c] = Append(@, seg)]
    /\ sent' = [sent EXCEPT ![c] = @ + 1]
    /\ UNCHANGED <<serverVars, threadVars, clientOpen, Idle, tickVars,
                   peerOpen, outq>>
    /\ UNCHANGED <<loopVars, proxyVars, handlerVars>>

PeerClose(c) ==
    /\ hpc[c] # "none"
    /\ peerOpen[c]
    /\ peerOpen' = [peerOpen EXCEPT ![c] = FALSE]
    /\ UNCHANGED <<serverVars, threadVars, clientOpen, Idle, tickVars,
                   inq, sent, outq>>
    /\ UNCHANGED <<loopVars, proxyVars, handlerVars>>

\* sendall on the client socket: it can succeed while the host's socket is
\* open, and it can raise once either end has closed.
SendCanSucceed(c) == clientOpen[c]
SendCanFail(c) == ~clientOpen[c] \/ ~peerOpen[c]

\* ------------------------------------------------------- _handle_client
\* A thread that ends without closing its socket.
FinishLeavesOpen(c) ==
    /\ hpc' = [hpc EXCEPT ![c] = "done"]
    /\ UNCHANGED clientOpen

\* finally: client.close(); the thread ends.
Finish(c) ==
    /\ hpc' = [hpc EXCEPT ![c] = "done"]
    /\ clientOpen' = [clientOpen EXCEPT ![c] = FALSE]

\* A loop that goes on receiving whether the server runs or not.
HLoopForever(c) ==
    /\ hpc[c] = "loop"
    /\ hpc' = [hpc EXCEPT ![c] = "recv"]
    /\ UNCHANGED clientOpen
    /\ UNCHANGED <<serverVars, command, idle_handler, Idle, tickVars,
                   peerVars, outq>>
    /\ UNCHANGED <<loopVars, proxyVars, handlerVars>>

\* while self.running:
HLoop(c) ==
    /\ hpc[c] = "loop"
    /\ IF running
       THEN /\ hpc' = [hpc EXCEPT ![c] = "recv"]
            /\ UNCHANGED clientOpen
       ELSE Finish(c)
    /\ UNCHANGED <<serverVars, command, idle_handler, Idle, tickVars,
                   peerVars, outq>>
    /\ UNCHANGED <<loopVars, proxyVars, handlerVars>>

\* An except branch that answers and then leaves the loop.
InvalidJsonBreak(c) ==
    /\ outq' = [outq EXCEPT ![c] = Append(@, InvalidJson)]
    /\ Finish(c)

\* The except ValueError branch: send the Invalid JSON format Response,
\* break when that send fails.
InvalidJsonBranch(c) ==
    \/ /\ SendCanSucceed(c)
       /\ outq' = [outq EXCEPT ![c] = Append(@, InvalidJson)]
       /\ hpc' = [hpc EXCEPT ![c] = "loop"]
       /\ UNCHANGED clientOpen
    \/ /\ SendCanFail(c)
       /\ Finish(c)
       /\ UNCHANGED outq

\* What the handler does with the bytes of one recv:
\* command = json.loads(data.decode('utf-8')), or the ValueError branch.
HandleData(c, seg) ==
    IF Decodable(seg)
    THEN /\ command' = [command EXCEPT ![c] = Decode(seg)]
         /\ hpc' = [hpc EXCEPT ![c] = "define"]
         /\ UNCHANGED <<clientOpen, outq>>
    ELSE /\ InvalidJsonBranch(c)
         /\ UNCHANGED command

\* data = client.recv(...); if not data: break; then the try block up to
\* the assignment of command.  A recv on a socket idle_handler has closed
\* raises, and the finally clause ends the thread.
HRecv(c) ==
    /\ hpc[c] = "recv"
    /\ \/ /\ clientOpen[c]
          /\ inq[c] # <<>>
          /\ inq' = [inq EXCEPT ![c] = Tail(@)]
          /\ HandleData(c, Head(inq[c]))
       \/ /\ clientOpen[c]
          /\ inq[c] = <<>>
          /\ ~peerOpen[c]
          /\ Finish(c)
          /\ UNCHANGED <<command, inq, outq>>
       \/ /\ ~clientOpen[c]
          /\ Finish(c)
          /\ UNCHANGED <<command, inq, outq>>
    /\ UNCHANGED <<serverVars, idle_handler, Idle, tickVars, peerOpen, sent>>
    /\ UNCHANGED <<loopVars, proxyVars, handlerVars>>

\* def execute_wrapper / def idle_handler: the cells are rebound to the new
\* closures.
HDefine(c) ==
    /\ hpc[c] = "define"
    /\ idle_handler' = [idle_handler EXCEPT ![c] = @ + 1]
    /\ hpc' = [hpc EXCEPT ![c] = "register"]
    /\ UNCHANGED <<serverVars, command, clientOpen, Idle, tickVars,
                   peerVars, outq>>
    /\ UNCHANGED <<loopVars, proxyVars, handlerVars>>

\* A handler thread that calls execute_command itself instead of leaving
\* it to the Idle event.
HRegisterDirect(c) ==
    /\ hpc[c] = "register"
    /\ executing' = executing \cup {"handler"}
    /\ outq' = [outq EXCEPT ![c] = Append(@, ExecuteCommand(command[c]))]
    /\ hpc' = [hpc EXCEPT ![c] = "loop"]
    /\ UNCHANGED <<serverVars, command, idle_handler, clientOpen, Idle,
                   hostpc, pending, cur, arg, ticks, runs, raised, peerVars>>
    /\ UNCHANGED <<loopVars, proxyVars, handlerVars>>

\* Rhino.RhinoApp.Idle += idle_handler
HRegister(c) ==
    /\ hpc[c] = "register"
    /\ Idle' = Append(Idle, <<c, idle_handler[c]>>)
    /\ hpc' = [hpc EXCEPT ![c] = "loop"]
    /\ UNCHANGED <<serverVars, command, idle_handler, clientOpen,
                   tickVars, peerVars, outq>>
    /\ UNCHANGED <<loopVars, proxyVars, handlerVars>>

\* ------------------------------------------------------ the host thread
\* The host raises RhinoApp.Idle: the handlers registered at that moment
\* are invoked in order of registration.
HostTick ==
    /\ hostpc = "idle"
    /\ Idle # <<>>
    /\ ticks < MaxTicks
    /\ pending' = Idle
    /\ hostpc' = "dispatch"
    /\ ticks' = ticks + 1
    /\ UNCHANGED <<serverVars, threadVars, clientOpen, Idle, cur, arg,
                   executing, runs, raised, peerVars, outq>>
    /\ UNCHANGED <<loopVars, proxyVars, handlerVars>>

\* idle_handler -> execute_wrapper -> self.execute_command(command): the
\* cell `command` is read when the call is made.
HostInvoke ==
    /\ hostpc = "dispatch"
    /\ pending # <<>>
    /\ cur' = Head(pending)
    /\ pending' = Tail(pending)
    /\ arg' = command[Client(Head(pending))]
    /\ executing' = executing \cup {"host"}
    /\ runs' = [runs EXCEPT ![Head(pending)] = @ + 1]
    /\ hostpc' = "exec"
    /\ UNCHANGED <<serverVars, threadVars, clientOpen, Idle, ticks, raised,
                   peerVars, outq>>
    /\ UNCHANGED <<loopVars, proxyVars, handlerVars>>

SendFailed == Response("error", "send failed")

\* execute_command returns and the rest of execute_wrapper runs:
\* sendall(response); on failure sendall(error_response); when that fails
\* too, execute_wrapper returns False and idle_handler closes the socket.
HostSend ==
    /\ hostpc = "exec"
    /\ executing' = executing \ {"host"}
    /\ LET c == Client(cur) IN
         \/ /\ SendCanSucceed(c)
            /\ outq' = [outq EXCEPT ![c] = Append(@, ExecuteCommand(arg))]
            /\ raised' = [raised EXCEPT ![cur] = "no"]
            /\ UNCHANGED clientOpen
         \/ /\ SendCanFail(c)
            /\ SendCanSucceed(c)
            /\ outq' = [outq EXCEPT ![c] = Append(@, SendFailed)]
            /\ raised' = [raised EXCEPT ![cur] = "answered"]
            /\ UNCHANGED clientOpen
         \/ /\ SendCanFail(c)
            /\ clientOpen' = [clientOpen EXCEPT ![c] = FALSE]
            /\ raised' = [raised EXCEPT ![cur] = "closed"]
            /\ UNCHANGED outq
    /\ hostpc' = "remove"
    /\ UNCHANGED <<serverVars, threadVars, Idle, pending, cur, arg,
                   ticks, runs, peerVars>>
    /\ UNCHANGED <<loopVars, proxyVars, handlerVars>>

\* event -= handler removes the last matching entry of the invocation list
\* and does nothing when there is none.
RECURSIVE RemoveLast(_, _)
RemoveLast(s, h) ==
    IF s = <<>> THEN <<>>
    ELSE IF s[Len(s)] = h THEN SubSeq(s, 1, Len(s) - 1)
    ELSE Append(RemoveLast(SubSeq(s, 1, Len(s) - 1), h), s[Len(s)])

\* The handler Rhino.RhinoApp.Idle -= idle_handler names: the cell
\* `idle_handler` is read when the statement runs.
Removed(c) == <<c, idle_handler[c]>>

\* Rhino.RhinoApp.Idle -= idle_handler, and the handler returns.
HostRemove ==
    /\ hostpc = "remove"
    /\ Idle' = RemoveLast(Idle, Removed(Client(cur)))
    /\ hostpc' = IF pending = <<>> THEN "idle" ELSE "dispatch"
    /\ UNCHANGED <<serverVars, threadVars, clientOpen, pending, cur, arg,
                   executing, ticks, runs, raised, peerVars, outq>>
    /\ UNCHANGED <<loopVars, proxyVars, handlerVars>>

Next ==
    \/ Start
    \/ Stop
    \/ \E c \in Conn : Accept(c)
    \/ \E c \in Conn : \E seg \in Segments : PeerSend(c, seg)
    \/ \E c \in Conn : PeerClose(c)
    \/ \E c \in Conn : HLoop(c)
    \/ \E c \in Conn : HRecv(c)
    \/ \E c \in Conn : HDefine(c)
    \/ \E c \in Conn : HRegister(c)
    \/ HostTick
    \/ HostInvoke
    \/ HostSend
    \/ HostRemove

Spec == Init /\ [][Next]_vars

\* -------------------------------------------- start, stop, accept loop
connVars == <<threadVars, clientOpen, Idle, tickVars, peerVars, outq>>

\* A stop() that leaves the reference to the accept thread in place.
StopKeepsThread ==
    /\ running' = FALSE
    /\ listening' = FALSE
    /\ UNCHANGED server_thread
    /\ apc' = [t \in Threads |-> IF apc[t] = "accept" THEN "closed" ELSE apc[t]]

\* stop(): running = False; the socket is closed and set to None, so an
\* accept blocked on it is now blocked on a closed socket; join waits for
\* the accept thread for at most a second and the reference is set to None
\* whether the thread has ended or not.
StopBody ==
    /\ running' = FALSE
    /\ listening' = FALSE
    /\ server_thread' = 0
    /\ apc' = [t \in Threads |-> IF apc[t] = "accept" THEN "closed" ELSE apc[t]]

\* start(): returns at once when running; else running = True, a new
\* socket is bound and listens and a new accept thread is started; a
\* failure on the way ends in stop().
StartServer ==
    /\ IF running
       THEN UNCHANGED <<serverVars, loopVars>>
       ELSE \/ /\ starts < MaxStarts
               /\ running' = TRUE
               /\ listening' = TRUE
               /\ server_thread' = starts + 1
               /\ apc' = [apc EXCEPT ![starts + 1] = "loop"]
               /\ starts' = starts + 1
            \/ /\ StopBody
               /\ UNCHANGED starts
    /\ UNCHANGED <<connVars, proxyVars, handlerVars>>

StopServer ==
    /\ StopBody
    /\ UNCHANGED <<starts, connVars, proxyVars, handlerVars>>

\* _server_loop, `while self.running:` and the call of
\* self.socket.accept(), in which the thread blocks.
ServerLoop(t) ==
    /\ apc[t] = "loop"
    /\ IF running
       THEN listening /\ apc' = [apc EXCEPT ![t] = "accept"]
       ELSE apc' = [apc EXCEPT ![t] = "done"]
    /\ UNCHANGED <<serverVars, server_thread, starts>>
    /\ UNCHANGED <<connVars, proxyVars, handlerVars>>

\* accept() on a socket that stop() has closed raises; the except clause
\* logs and sleeps only `if self.running`, and the loop goes on.
AcceptRaises(t) ==
    /\ apc[t] = "closed"
    /\ apc' = [apc EXCEPT ![t] = "loop"]
    /\ UNCHANGED <<serverVars, server_thread, starts>>
    /\ UNCHANGED <<connVars, proxyVars, handlerVars>>

\* accept() returns a connection: the thread starts its handler thread
\* and, the server still running, blocks in accept() again.
ServerAccept(t, c) ==
    /\ apc[t] = "accept"
    /\ Accept(c)

ServerNext ==
    \/ StartServer
    \/ StopServer
    \/ \E t \in Threads : ServerLoop(t)
    \/ \E t \in Threads : AcceptRaises(t)
    \/ \E t \in Threads : \E c \in Conn : ServerAccept(t, c)

ServerSpec == Init /\ [][ServerNext]_vars

\* ------------------------------------------- Responses of several chunks
\* response_bytes[i:i + chunk_size]: the i-th chunk of a Response that is
\* longer than chunk_size, here one of two chunks.
Chunk(response, i) == [response |-> response, chunk |-> i]

\* The first round of `for i in range(0, len(response_bytes), chunk_size)`
\* for a Response of two chunks: client.sendall(chunk) returns and the
\* loop goes on.
HostSendChunk ==
    /\ hostpc = "exec"
    /\ executing' = executing \ {"host"}
    /\ SendCanSucceed(Client(cur))
    /\ outq' = [outq EXCEPT ![Client(cur)] =
                    Append(@, Chunk(ExecuteCommand(arg), 1))]
    /\ hostpc' = "chunk"
    /\ UNCHANGED <<serverVars, threadVars, clientOpen, Idle, pending, cur,
                   arg, ticks, runs, raised, peerVars>>
    /\ UNCHANGED <<loopVars, proxyVars, handlerVars>>

\* The last round of the loop and the rest of execute_wrapper: sendall of
\* the last chunk; on failure sendall(error_response); when that fails too
\* idle_handler closes the socket.
HostSendLast ==
    /\ hostpc = "chunk"
    /\ LET c == Client(cur) IN
         \/ /\ SendCanSucceed(c)
            /\ outq' = [outq EXCEPT ![c] =
                            Append(@, Chunk(ExecuteCommand(arg), 2))]
            /\ raised' = [raised EXCEPT ![cur] = "no"]
            /\ UNCHANGED clientOpen
         \/ /\ SendCanFail(c)
            /\ SendCanSucceed(c)
            /\ outq' = [outq EXCEPT ![c] = Append(@, SendFailed)]
            /\ raised' = [raised EXCEPT ![cur] = "answered"]
            /\ UNCHANGED clientOpen
         \/ /\ SendCanFail(c)
            /\ clientOpen' = [clientOpen EXCEPT ![c] = FALSE]
            /\ raised' = [raised EXCEPT ![cur] = "closed"]
            /\ UNCHANGED outq
    /\ hostpc' = "remove"
    /\ UNCHANGED <<serverVars, threadVars, Idle, pending, cur, arg,
                   executing, ticks, runs, peerVars>>
    /\ UNCHANGED <<loopVars, proxyVars, handlerVars>>

\* The server with one connection, its handler thread and the host thread,
\* and Responses of one chunk and of two.
StreamNext ==
    \/ Start
    \/ Stop
    \/ Accept(1)
    \/ \E seg \in Segments : PeerSend(1, seg)
    \/ PeerClose(1)
    \/ HLoop(1)
    \/ HRecv(1)
    \/ HDefine(1)
    \/ HRegister(1)
    \/ HostTick
    \/ HostInvoke
    \/ HostSend
    \/ HostSendChunk
    \/ HostSendLast
    \/ HostRemove

StreamSpec == Init /\ [][StreamNext]_vars

\* ------------------------------------------ the peer is a RhinoConnection
\* send_command on the socket of connection c: the Command is written in
\* one piece, and only by a call, so after every earlier call on this
\* socket has read its Response (a call that fails closes the socket).
PeerSendCommand(c, cmd) ==
    /\ Len(outq[c]) >= sent[c]
    /\ PeerSend(c, Whole(cmd))

BridgeNext ==
    \/ Start
    \/ Stop
    \/ \E c \in Conn : Accept(c)
    \/ \E c \in Conn : \E cmd \in Commands : PeerSendCommand(c, cmd)
    \/ \E c \in Conn : PeerClose(c)
    \/ \E c \in Conn : HLoop(c)
    \/ \E c \in Conn : HRecv(c)
    \/ \E c \in Conn : HDefine(c)
    \/ \E c \in Conn : HRegister(c)
    \/ HostTick
    \/ HostInvoke
    \/ HostSend
    \/ HostRemove

BridgeSpec == Init /\ [][BridgeNext]_vars

\* ------------------------------------------- two clients, one command each
\* The script has been loaded and its start() has succeeded; each of the
\* two peers sends one execute_code Command, short enough to arrive in one
\* receive, and keeps its end open; the host keeps raising Idle.
LiveInit ==
    /\ ProxyInit
    /\ NoHandlerCall
    /\ running = TRUE
    /\ listening = TRUE
    /\ hpc = [c \in Conn |-> "none"]
    /\ command = [c \in Conn |-> Nothing]
    /\ idle_handler = [c \in Conn |-> 0]
    /\ clientOpen = [c \in Conn |-> FALSE]
    /\ Idle = <<>>
    /\ hostpc = "idle"
    /\ pending = <<>>
    /\ cur = NoHandler
    /\ arg = Nothing
    /\ executing = {}
    /\ inq = [c \in Conn |-> <<>>]
    /\ outq = [c \in Conn |-> <<>>]
    /\ peerOpen = [c \in Conn |-> FALSE]
    /\ sent = [c \in Conn |-> 0]
    /\ ticks = 0
    /\ runs = [h \in HandlerIds |-> 0]
    /\ raised = [h \in HandlerIds |-> "no"]
    /\ NoAcceptThread

PeerSendCode(c) ==
    /\ sent[c] = 0
    /\ \E cmd \in Commands :
           /\ cmd.type = "execute_code"
           /\ PeerSend(c, Whole(cmd))

HandlerStep(c) == HLoop(c) \/ HRecv(c) \/ HDefine(c) \/ HRegister(c)

HostStep == HostTick \/ HostInvoke \/ HostSend \/ HostRemove

LiveNext ==
    \/ \E c \in Conn : Accept(c)
    \/ \E c \in Conn : PeerSendCode(c)
    \/ \E c \in Conn : HandlerStep(c)
    \/ HostStep

\* Every thread that can take a step eventually takes one.
LiveSpec ==
    /\ LiveInit
    /\ [][LiveNext]_vars
    /\ \A c \in Conn : WF_vars(Accept(c))
    /\ \A c \in Conn : WF_vars(PeerSendCode(c))
    /\ \A c \in Conn : WF_vars(HandlerStep(c))
    /\ WF_vars(HostStep)

\* ===================================================== the client proxy
\* Bytes on the proxy's socket: a Response's opening, body and closing.
RSeg(o, b, c) == [open |-> o, body |-> b, close |-> c, junk |-> FALSE]
RWhole(r) == RSeg(TRUE, r, TRUE)
RHead(r) == RSeg(TRUE, r, FALSE)
RTail == RSeg(FALSE, NoResponse, TRUE)
Garbled == [open |-> FALSE, body |-> NoResponse, close |-> FALSE, junk |-> TRUE]

\* buffer += data
Concat(buf, d) ==
    IF buf = NoBytes THEN d
    ELSE IF /\ buf.open /\ ~buf.close /\ ~buf.junk
            /\ ~d.open /\ d.close /\ ~d.junk
         THEN [buf EXCEPT !.close = TRUE]
         ELSE Garbled

\* json.loads(buffer.decode('utf-8')) succeeds.
ResponseDecodable(buf) ==
    buf.open /\ buf.close /\ ~buf.junk /\ buf.body # NoResponse

\* The error Response of execute_code for a script that printed two lines
\* and then raised: status, message and the lines captured before.
CodeError ==
    [status |-> "error", payload |-> "boom", printed_output |-> <<"yo", "hi">>]

\* What the far end may write to the proxy's socket in one piece.
Replies ==
    { RWhole(Response("success", "s1")),
      RWhole(CodeError),
      RWhole(Response("error", "")),
      RWhole(ImageEnvelope),
      RWhole(TextEnvelope),
      RHead(Response("success", "s1")),
      RTail }

\* self.timeout = 30.0, also the timeout set on the socket by connect().
Timeout == 30

\* How long a blocked recv may go on before something is observed.
Delays == {15, 30}

\* response.get("status")
StatusOf(r) == IF "status" \in DOMAIN r THEN r.status ELSE "absent"

\* response.get("message", "Unknown error from Rhino"): the payload of an
\* error Response is its message, "" when it has none.
MessageOf(r) ==
    IF "payload" \in DOMAIN r /\ r.payload # ""
    THEN r.payload
    ELSE "Unknown error from Rhino"

\* The tools of RhinoTools that talk to the host.
Tools ==
    { "get_rhino_scene_info", "get_rhino_layers",
      "get_rhino_objects_with_metadata", "capture_rhino_viewport",
      "execute_rhino_code", "get_rhino_selected_objects" }

\* A failure path that leaves the socket as it is.
DisconnectKeeps ==
    UNCHANGED <<psocket, popen, pin, srvOpen>>

\* disconnect(): close the socket if there is one; self.socket = None.
Disconnect ==
    /\ psocket' = 0
    /\ popen' = popen \ {psocket}
    /\ pin' = <<>>
    /\ srvOpen' = FALSE

\* except Exception: self.disconnect(); raise
FailCall(msg) ==
    /\ Disconnect
    /\ presult' = "raised"
    /\ pmessage' = msg
    /\ preturned' = NoResponse
    /\ ppc' = "idle"

\* A get_rhino_connection that constructs a RhinoConnection on every call.
GetRhinoConnectionFresh ==
    /\ rhino_connection' = ninst + 1
    /\ ninst' = ninst + 1

\* get_rhino_connection(): construct the global instance if there is none.
GetRhinoConnection ==
    IF rhino_connection = 0
    THEN /\ rhino_connection' = ninst + 1
         /\ ninst' = ninst + 1
    ELSE UNCHANGED <<rhino_connection, ninst>>

\* A tool calls get_rhino_connection() and then send_command on what it
\* got: if self.socket is None: self.connect().  connect() makes a socket
\* and connects it; when that raises, connect() itself disconnects and the
\* failure leaves send_command.  A RhinoConnection just constructed has no
\* socket.
SendCommand(tool) ==
    /\ ppc = "idle"
    /\ pcalls < MaxCalls
    /\ pcalls' = pcalls + 1
    /\ ptool' = tool
    /\ pbuffer' = NoBytes
    /\ pelapsed' = 0
    /\ pwaited' = 0
    /\ GetRhinoConnection
    /\ LET socket == IF rhino_connection' = rhino_connection
                     THEN psocket ELSE 0
       IN  IF socket = 0
           THEN \/ /\ nsock' = nsock + 1
                   /\ psocket' = nsock + 1
                   /\ popen' = popen \cup {nsock + 1}
                   /\ pin' = <<>>
                   /\ srvOpen' = TRUE
                   /\ presult' = "none"
                   /\ pmessage' = ""
                   /\ preturned' = NoResponse
                   /\ ppc' = "send"
                \/ /\ nsock' = nsock + 1
                   /\ FailCall("Connection refused")
           ELSE /\ presult' = "none"
                /\ pmessage' = ""
                /\ preturned' = NoResponse
                /\ ppc' = "send"
                /\ UNCHANGED <<psocket, popen, nsock, pin, srvOpen>>
    /\ UNCHANGED <<preplies, hostVars, handlerVars>>

\* self.socket.sendall(command_json.encode('utf-8')); buffer = b'';
\* start_time = time.time()
ProxySendAll ==
    /\ ppc = "send"
    /\ \/ /\ ppc' = "recv"
          /\ UNCHANGED <<psocket, popen, pin, srvOpen, presult, pmessage,
                         preturned>>
       \/ /\ ~srvOpen
          /\ FailCall("Broken pipe")
    /\ pelapsed' = 0
    /\ pwaited' = 0
    /\ UNCHANGED <<nsock, pbuffer, pcalls, preplies, ptool,
                   rhino_connection, ninst, hostVars, handlerVars>>

\* Time passes while recv is blocked: there is nothing to read, the far
\* end has not closed, and the socket's timeout has not run out.
ProxyWait(d) ==
    /\ ppc = "recv"
    /\ pin = <<>>
    /\ srvOpen
    /\ pwaited + d <= Timeout
    /\ pelapsed' = pelapsed + d
    /\ pwaited' = pwaited + d
    /\ UNCHANGED <<psocket, popen, nsock, ppc, pbuffer, pin, srvOpen,
                   presult, preturned, pcalls, preplies, pmessage, ptool,
                   rhino_connection, ninst, hostVars, handlerVars>>

\* A decoding that returns every Response, whatever its status.
OnDecodedReturnsAll(response) ==
    /\ preturned' = response
    /\ presult' = "returned"
    /\ ppc' = "idle"
    /\ pin' = Tail(pin)
    /\ UNCHANGED <<psocket, popen, srvOpen, pmessage>>

\* json.loads succeeded: raise on status "error", else return response.
OnDecoded(response) ==
    IF StatusOf(response) = "error"
    THEN FailCall(MessageOf(response))
    ELSE /\ preturned' = response
         /\ presult' = "returned"
         /\ ppc' = "idle"
         /\ pin' = Tail(pin)
         /\ UNCHANGED <<psocket, popen, srvOpen, pmessage>>

\* One round of the receive loop: recv, the attempt to decode the buffer
\* and, on `continue`, the timeout check at the head of the next round.
ProxyRecv ==
    /\ ppc = "recv"
    /\ \/ \* recv raises socket.timeout
          /\ pin = <<>>
          /\ pwaited = Timeout
          /\ FailCall("Socket timeout while receiving response")
          /\ UNCHANGED pbuffer
       \/ \* recv returns b'': Connection closed by Rhino script
          /\ pin = <<>>
          /\ ~srvOpen
          /\ FailCall("Connection closed by Rhino script")
          /\ UNCHANGED pbuffer
       \/ /\ pin # <<>>
          /\ pbuffer' = Concat(pbuffer, Head(pin))
          /\ IF ResponseDecodable(pbuffer')
             THEN OnDecoded(pbuffer'.body)
             ELSE IF pelapsed > Timeout
                  THEN FailCall("Response timeout")
                  ELSE /\ pin' = Tail(pin)
                       /\ UNCHANGED <<psocket, popen, srvOpen, presult,
                                      pmessage, preturned, ppc>>
    /\ pwaited' = 0
    /\ UNCHANGED <<nsock, pcalls, preplies, pelapsed, ptool,
                   rhino_connection, ninst, hostVars, handlerVars>>

\* The far end writes to the connection, or closes its end.
SrvReply(seg) ==
    /\ psocket # 0
    /\ srvOpen
    /\ preplies < MaxReplies
    /\ pin' = Append(pin, seg)
    /\ preplies' = preplies + 1
    /\ UNCHANGED <<psocket, popen, nsock, ppc, pbuffer, srvOpen, presult,
                   preturned, pcalls, pmessage, pelapsed, pwaited, ptool,
                   rhino_connection, ninst, hostVars, handlerVars>>

SrvClose ==
    /\ psocket # 0
    /\ srvOpen
    /\ srvOpen' = FALSE
    /\ UNCHANGED <<psocket, popen, nsock, ppc, pbuffer, pin, presult,
                   preturned, pcalls, preplies, pmessage, pelapsed,
                   pwaited, ptool, rhino_connection, ninst, hostVars,
                   handlerVars>>

ProxyNext ==
    \/ \E tool \in Tools : SendCommand(tool)
    \/ ProxySendAll
    \/ \E d \in Delays : ProxyWait(d)
    \/ ProxyRecv
    \/ \E seg \in Replies : SrvReply(seg)
    \/ SrvClose

ProxySpec == Init /\ [][ProxyNext]_vars

\* The words a tool puts before the message of a failure it caught.
ErrorDoing(tool) ==
    CASE tool = "get_rhino_scene_info" -> "Error getting scene info"
      [] tool = "get_rhino_layers" -> "Error getting layers"
      [] tool = "get_rhino_objects_with_metadata" ->
             "Error getting objects with metadata"
      [] tool = "capture_rhino_viewport" -> "Error capturing viewport"
      [] tool = "execute_rhino_code" -> "Error executing code"
      [] tool = "get_rhino_selected_objects" ->
             "Error getting selected objects"

\* "<doing X>: {0}".format(str(e))
ErrorString(tool, msg) == [kind |-> "string", text |-> <<ErrorDoing(tool), msg>>]

\* A failure that leaves the tool: capture_rhino_viewport logs and re-raises.
Propagates(msg) == [kind |-> "raised", text |-> <<msg>>]

\* result.get("printed_output", [])
PrintedOutput(result) ==
    IF "printed_output" \in DOMAIN result THEN result.printed_output ELSE <<>>

\* if printed_output: ... += "\n\n<heading>:\n" + "\n".join(printed_output)
PrintedPart(heading, result) ==
    IF PrintedOutput(result) # <<>>
    THEN <<heading>> \o PrintedOutput(result)
    ELSE <<>>

\* What a tool hands to its caller when its send_command call ended with
\* outcome ("raised" with message msg, or "returned" with result).  Every
\* tool has its whole body in try/except Exception.
ToolReturn(tool, outcome, msg, result) ==
    IF tool = "capture_rhino_viewport"
    THEN IF outcome = "raised" THEN Propagates(msg)
         ELSE IF "type" \in DOMAIN result /\ result.type = "image"
              THEN [kind |-> "image", text |-> <<result.data>>]
              ELSE Propagates(IF "text" \in DOMAIN result THEN result.text
                              ELSE "Failed to capture viewport")
    ELSE IF outcome = "raised" THEN ErrorString(tool, msg)
    ELSE IF tool = "execute_rhino_code"
         THEN IF StatusOf(result) = "error"
              THEN [kind |-> "string",
                    text |-> <<"Error", MessageOf(result)>>
                             \o PrintedPart("Printed output before error",
                                            result)]
              ELSE [kind |-> "string",
                    text |-> <<IF "payload" \in DOMAIN result
                               THEN result.payload
                               ELSE "Code executed successfully">>
                             \o PrintedPart("Printed output", result)]
         ELSE [kind |-> "string", text |-> <<"json.dumps", result>>]

\* What the tool of the last call handed to its caller.
ToolResult == ToolReturn(ptool, presult, pmessage, preturned)

\* ================================================== the host's handlers
Range(s) == { s[i] : i \in 1..Len(s) }

\* Layer names, object names and filters are texts: sequences of
\* characters.
Layer1 == <<"L", "a", "y", "e", "r", "1">>
LayerABC == <<"L", "a", "y", "e", "r", "A", "B", "C">>
LayerX1 == <<"L", "a", "y", "e", "r", "X", "1">>
MyLayer1 == <<"M", "y", "L", "a", "y", "e", "r", "1">>
LowerLayer == <<"l", "a", "y", "e", "r">>
LayerStar == <<"L", "a", "y", "e", "r", "*">>
LayerDot1 == <<"L", "a", "y", "e", "r", ".", "1">>
Star == <<"*">>
StarOne == <<"*", "1">>
NameA1 == <<"A", "1">>
NameLowerA1 == <<"a", "1">>
NameB1 == <<"B", "1">>
AStar == <<"A", "*">>
Unnamed == <<"U", "n", "n", "a", "m", "e", "d">>

\* The lower-case form of a character (re.IGNORECASE).
Lower(ch) ==
    CASE ch = "L" -> "l"
      [] ch = "A" -> "a"
      [] ch = "B" -> "b"
      [] ch = "C" -> "c"
      [] ch = "M" -> "m"
      [] ch = "X" -> "x"
      [] ch = "U" -> "u"
      [] OTHER -> ch

RECURSIVE Replace(_)
\* filter.replace("*", ".*")
Replace(f) ==
    IF f = <<>> THEN <<>>
    ELSE (IF Head(f) = "*" THEN <<".", "*">> ELSE <<Head(f)>>)
             \o Replace(Tail(f))

\* pattern = "^" + filter.replace("*", ".*") + "$"
Pattern(f) == <<"^">> \o Replace(f) \o <<"$">>

\* One atom of a pattern against one character: "." is any character,
\* another character is itself in either case.
AtomMatches(a, ch) == a = "." \/ Lower(a) = Lower(ch)

RECURSIVE MatchHere(_, _)
\* The pattern after its "^" matches at the start of text: atoms, an atom
\* followed by "*", and "$" at the end.
MatchHere(r, text) ==
    IF r = <<>> THEN TRUE
    ELSE IF r = <<"$">> THEN text = <<>>
    ELSE IF Len(r) >= 2 /\ r[2] = "*"
         THEN \/ MatchHere(Tail(Tail(r)), text)
              \/ /\ text # <<>>
                 /\ AtomMatches(r[1], Head(text))
                 /\ MatchHere(r, Tail(text))
         ELSE /\ text # <<>>
              /\ AtomMatches(r[1], Head(text))
              /\ MatchHere(Tail(r), Tail(text))

\* re.match(pattern, text, re.IGNORECASE) is not None
ReMatch(pattern, text) ==
    IF Head(pattern) = "^" THEN MatchHere(Tail(pattern), text)
    ELSE MatchHere(pattern, text)

\* VALID_METADATA_FIELDS
RequiredFields == <<"id", "name", "type", "layer">>
OptionalFields ==
    <<"short_id", "created_at", "bbox", "description", "user_text">>

\* A list of valid fields that leaves the optional ones out.
AllFieldsRequiredOnly == RequiredFields

\* all_fields = VALID_METADATA_FIELDS['required'] + [...]['optional']
AllFields == RequiredFields \o OptionalFields

\* dict.get(key, default)
Get(d, k, default) == IF k \in DOMAIN d THEN d[k] ELSE default

\* A decoded JSON value that is not a mapping: null, and with it a number,
\* a string or a list, none of which has a get method.
Null == [json |-> "null"]

IsNull(v) == "json" \in DOMAIN v

\* The decimal digits as characters.
DigitChars == <<"0", "1", "2", "3", "4", "5", "6", "7", "8", "9">>

DigitChar(n) == DigitChars[n + 1]

IsDigit(ch) == \E n \in 0..9 : DigitChars[n + 1] = ch

DigitVal(ch) == CHOOSE n \in 0..9 : DigitChars[n + 1] = ch

RECURSIVE JoinComma(_)
\* ", ".join(parts) on texts that are lists of tokens.
JoinComma(parts) ==
    IF parts = <<>> THEN <<>>
    ELSE IF Len(parts) = 1 THEN parts[1]
    ELSE parts[1] \o <<",">> \o JoinComma(Tail(parts))

\* json.dumps of one point [X, Y, Z]: a coordinate is one digit.
DumpPoint(p) ==
    <<"[">> \o JoinComma([i \in 1..Len(p) |-> <<DigitChar(p[i])>>]) \o <<"]">>

\* An encoding that writes the coordinates of all points into one list.
JsonDumpsFlat(points) ==
    <<"[">>
      \o JoinComma([i \in 1..(3 * Len(points)) |->
                      <<DigitChar(points[((i - 1) \div 3) + 1][((i - 1) % 3) + 1])>>])
      \o <<"]">>

\* json.dumps(bbox_data): the text, token by token.
JsonDumps(points) ==
    <<"[">> \o JoinComma([i \in 1..Len(points) |-> DumpPoint(points[i])]) \o <<"]">>

\* The outcome of a parse that raised.
ParseError == [ok |-> FALSE, value |-> <<>>, next |-> 0]

RECURSIVE ParseValue(_, _)
RECURSIVE ParseItems(_, _, _)
\* The JSON value that starts at token i: a number or an array.
ParseValue(t, i) ==
    IF i > Len(t) THEN ParseError
    ELSE IF IsDigit(t[i])
         THEN [ok |-> TRUE, value |-> DigitVal(t[i]), next |-> i + 1]
    ELSE IF t[i] = "["
         THEN IF i + 1 <= Len(t) /\ t[i + 1] = "]"
              THEN [ok |-> TRUE, value |-> <<>>, next |-> i + 2]
              ELSE ParseItems(t, i + 1, <<>>)
    ELSE ParseError

\* The items of an array from token i on, up to its closing bracket.
ParseItems(t, i, acc) ==
    LET v == ParseValue(t, i)
    IN  IF ~v.ok \/ v.next > Len(t) THEN ParseError
        ELSE IF t[v.next] = ","
             THEN ParseItems(t, v.next + 1, Append(acc, v.value))
        ELSE IF t[v.next] = "]"
             THEN [ok |-> TRUE, value |-> Append(acc, v.value), next |-> v.next + 1]
        ELSE ParseError

\* str(time.time()): the time in tenths of a second, as text.
FloatStr(t) == <<DigitChar(t \div 10), ".", DigitChar(t % 10)>>

\* Texts that are stored in the pool's attribute stores.
Box2 == <<<<0, 0, 0>>, <<1, 1, 1>>>>
CutOffBox == <<"[", "[", "0", ",">>
Soon == <<"s", "o", "o", "n">>

\* An object of the document: Id, Name (<<>> is None), its layer's path,
\* its geometry's type name and its user text (the attribute store).
Obj(i, n, l, t, st) == [id |-> i, name |-> n, layer |-> l, type |-> t, store |-> st]

ObjectPool ==
    { Obj(1, NameA1, Layer1, "Brep",
          [short_id |-> "01", bbox |-> JsonDumps(Box2),
           created_at |-> FloatStr(15), description |-> "a box"]),
      Obj(2, <<>>, LayerX1, "Curve", <<>>),
      Obj(3, NameLowerA1, MyLayer1, "Brep",
          [short_id |-> "02", bbox |-> CutOffBox, created_at |-> Soon,
           owner |-> "ann"]),
      Obj(4, NameB1, LowerLayer, "Mesh", [short_id |-> "01"]),
      Obj(5, NameA1, LayerABC, "Brep", [owner |-> "bob", type |-> "Brep"]) }

\* obj.Geometry is None: obj.Geometry.GetType() raises an AttributeError.
NoGeometry == "None"

\* An object whose geometry cannot be read.
BrokenObject == Obj(6, NameB1, Layer1, NoGeometry, [short_id |-> "03"])

\* The documents a query may run on: sc.doc.Objects.
Documents == SUBSET (ObjectPool \cup {BrokenObject})

RECURSIVE InOrder(_)
\* for obj in sc.doc.Objects: the objects in the table's order.
InOrder(doc) ==
    IF doc = {} THEN <<>>
    ELSE LET first == CHOOSE o \in doc : \A q \in doc : o.id <= q.id
         IN  <<first>> \o InOrder(doc \ {first})

\* json.loads of a stored bbox: the decoded value, or a ValueError when
\* the text is not one JSON value.
JsonLoads(v) ==
    LET r == ParseValue(v, 1)
    IN  IF r.ok /\ r.next = Len(v) + 1
        THEN [ok |-> TRUE, value |-> r.value]
        ELSE [ok |-> FALSE, value |-> <<>>]

\* float of a stored created_at: the number in tenths, or a ValueError.
Float(v) ==
    IF Len(v) = 3 /\ IsDigit(v[1]) /\ v[2] = "." /\ IsDigit(v[3])
    THEN [ok |-> TRUE, value |-> 10 * DigitVal(v[1]) + DigitVal(v[3])]
    ELSE [ok |-> FALSE, value |-> 0]

\* A reading of the store that hands every value on as it is stored.
StoredValueAsStored(key, v) == v

\* stored_data[key]: bbox and created_at parsed, with their defaults when
\* parsing raises; every other value as stored.
StoredValue(key, v) ==
    IF key = "bbox" THEN JsonLoads(v).value
    ELSE IF key = "created_at" THEN Float(v).value
    ELSE v

StoredData(o) == [k \in DOMAIN o.store |-> StoredValue(k, o.store[k])]

\* A projection that without a field list takes every stored key.
MetadataAllStored(o, fields) ==
    LET stored == StoredData(o)
        keys == IF fields # <<>>
                THEN Range(fields) \cap DOMAIN stored
                ELSE DOMAIN stored
    IN  [k \in keys |-> stored[k]]

\* metadata: the requested fields that are stored, or without a field list
\* every stored key that is not a required field.
Metadata(o, fields) ==
    LET stored == StoredData(o)
        keys == IF fields # <<>>
                THEN Range(fields) \cap DOMAIN stored
                ELSE DOMAIN stored \ Range(RequiredFields)
    IN  [k \in keys |-> stored[k]]

\* user_text: the stored keys that did not go into metadata.
UserText(o, fields) ==
    LET stored == StoredData(o)
    IN  [k \in DOMAIN stored \ DOMAIN Metadata(o, fields) |-> stored[k]]

\* obj_data for one object that passed the filters.
ObjData(o, fields) ==
    [id |-> o.id,
     name |-> IF o.name = <<>> THEN Unnamed ELSE o.name,
     type |-> o.type,
     layer |-> o.layer]
      @@ (IF /\ fields = <<>> \/ "user_text" \in Range(fields)
             /\ DOMAIN UserText(o, fields) # {}
          THEN "user_text" :> UserText(o, fields) ELSE <<>>)
      @@ (IF DOMAIN Metadata(o, fields) # {}
          THEN "metadata" :> Metadata(o, fields) ELSE <<>>)

\* `if layer_filter:` and `if name_filter:`: the field is there and is not
\* the empty text.
HasText(filters, k) == k \in DOMAIN filters /\ filters[k] # <<>>

\* `if id_filter:`
HasId(filters) == "short_id" \in DOMAIN filters /\ filters.short_id # ""

\* A filter section that also skips every object without a name.
PassesNamedOnly(o, filters) ==
    /\ o.name # <<>>
    /\ HasText(filters, "layer") => ReMatch(Pattern(filters.layer), o.layer)
    /\ HasText(filters, "name") => ReMatch(Pattern(filters.name), o.name)
    /\ HasId(filters) => Get(o.store, "short_id", "") = filters.short_id

\* A filter section that keeps an object as soon as one filter matches.
PassesAny(o, filters) ==
    \/ ~HasText(filters, "layer") /\ ~HasText(filters, "name") /\ ~HasId(filters)
    \/ HasText(filters, "layer") /\ ReMatch(Pattern(filters.layer), o.layer)
    \/ HasText(filters, "name") /\ ReMatch(Pattern(filters.name), o.name)
    \/ HasId(filters) /\ Get(o.store, "short_id", "") = filters.short_id

\* The object is not skipped by a `continue` of the filter section.
Passes(o, filters) ==
    /\ HasText(filters, "layer") => ReMatch(Pattern(filters.layer), o.layer)
    /\ HasText(filters, "name") => ReMatch(Pattern(filters.name), o.name)
    /\ HasId(filters) => Get(o.store, "short_id", "") = filters.short_id

\* invalid_fields = [f for f in metadata_fields if f not in all_fields]
InvalidFields(fields) ==
    LET IsInvalid(f) == f \notin Range(AllFields)
    IN  SelectSeq(fields, IsInvalid)

\* Building obj_data raises for an object that passed the filters: nothing
\* inside the loop catches it.
RaisesInLoop(doc, filters) ==
    \E o \in doc : Passes(o, filters) /\ o.type = NoGeometry

\* params.get or filters.get raises an AttributeError before all_fields is
\* assigned, and the except clause, which reads all_fields, raises in turn.
QueryRaises(params) ==
    IsNull(params) \/ IsNull(Get(params, "filters", <<>>))

\* _get_rhino_objects_with_metadata(params), when it returns.
GetRhinoObjectsWithMetadata(doc, params) ==
    LET filters == Get(params, "filters", <<>>)
        fields == Get(params, "metadata_fields", <<>>)
        Kept(o) == Passes(o, filters) /\ o.type # NoGeometry
        objects == SelectSeq(InOrder(doc), Kept)
    IN  IF fields # <<>> /\ InvalidFields(fields) # <<>>
        THEN [status |-> "error",
              message |-> <<"Invalid metadata fields", InvalidFields(fields)>>,
              available_fields |-> AllFields]
        ELSE IF RaisesInLoop(doc, filters)
        THEN [status |-> "error",
              message |-> "'NoneType' object has no attribute 'GetType'",
              available_fields |-> AllFields]
        ELSE [status |-> "success",
              count |-> Len(objects),
              objects |-> [i \in 1..Len(objects) |-> ObjData(objects[i], fields)],
              available_fields |-> AllFields]

\* The objects the loop over sc.doc.Objects got to.
ObjectsRead(doc, params) ==
    LET fields == Get(params, "metadata_fields", <<>>)
    IN  IF QueryRaises(params) THEN {}
        ELSE IF fields # <<>> /\ InvalidFields(fields) # <<>>
        THEN {}
        ELSE { o.id : o \in doc }

\* ---------------------------------------------------------- execute_code
\* The statements of a script: a print call, an assignment to result, and
\* a statement that raises an Exception.
PrintStmt(v) == [op |-> "print", v |-> v]
SetResult(v) == [op |-> "result", v |-> v]
RaiseStmt(v) == [op |-> "raise", v |-> v]

Stmts == { PrintStmt("hi"), PrintStmt("yo"), SetResult("done"), RaiseStmt("boom") }

\* The code of a Command: <<>> is the empty text.
Scripts == UNION { [1..n -> Stmts] : n \in 0..MaxStmts }

\* A print sink that keeps the last line only.
CustomPrintLatest(printed_output, v) == <<v>>

\* custom_print: printed_output.append(output)
CustomPrint(printed_output, v) == Append(printed_output, v)

\* The execution environment before exec: nothing printed, no result.
NewEnv == [printed_output |-> <<>>, result |-> <<>>, raised |-> <<>>, ran |-> 0]

RECURSIVE Exec(_, _)
\* exec(code, exec_globals, local_dict): the statements in order up to
\* and with the first that raises.
Exec(code, env) ==
    IF code = <<>> THEN env
    ELSE LET st == Head(code)
             at == [env EXCEPT !.ran = @ + 1]
         IN  IF st.op = "raise" THEN [at EXCEPT !.raised = <<st.v>>]
             ELSE IF st.op = "print"
                  THEN Exec(Tail(code),
                            [at EXCEPT !.printed_output = CustomPrint(@, st.v)])
                  ELSE Exec(Tail(code), [at EXCEPT !.result = <<st.v>>])

\* _execute_rhino_code(params)
RunRhinoCode(params) ==
    LET code == Get(params, "code", <<>>)
        env == Exec(code, NewEnv)
    IN  IF code = <<>>
        THEN [status |-> "error", message |-> "No code provided"]
        ELSE IF env.raised # <<>>
             THEN [status |-> "error",
                   message |-> env.raised[1],
                   printed_output |-> env.printed_output]
             ELSE [status |-> "success",
                   result |-> IF env.result = <<>>
                              THEN "Code executed successfully"
                              ELSE env.result[1],
                   printed_output |-> env.printed_output]

\* The statements exec ran.
StatementsRun(params) ==
    LET code == Get(params, "code", <<>>)
    IN  1..Exec(code, NewEnv).ran

\* ------------------------------------------------------- other handlers
\* _capture_rhino_viewport: the image envelope, or the text envelope when
\* anything in it raised.
CaptureRhinoViewport(fails) ==
    IF fails THEN TextEnvelope ELSE ImageEnvelope

\* Every other handler of the table: its own success Response, or its own
\* error Response when its body raised or a precondition failed.
OtherHandler(type, fails) ==
    IF fails THEN [status |-> "error", message |-> "e"]
    ELSE [status |-> "success", handler |-> type]

\* The handler of the call raises instead of returning.
Escapes(call) ==
    call.type = "get_rhino_objects_with_metadata" /\ QueryRaises(call.params)

\* execute_command's own except clause.
ExecuteCommandExcept ==
    [status |-> "error",
     message |-> "local variable 'all_fields' referenced before assignment"]

\* execute_command(command) with the handler it calls.
Handle(call) ==
    IF call.type = "execute_code" THEN RunRhinoCode(call.params)
    ELSE IF Escapes(call) THEN ExecuteCommandExcept
    ELSE IF call.type = "get_rhino_objects_with_metadata"
         THEN GetRhinoObjectsWithMetadata(call.doc, call.params)
    ELSE IF call.type = "capture_rhino_viewport"
         THEN CaptureRhinoViewport(call.fails)
    ELSE IF call.type \in DispatchTable
         THEN OtherHandler(call.type, call.fails)
    ELSE [status |-> "error", message |-> "Unknown command type"]

\* A decoded value with a get method: a JSON object.
IsMapping(v) == ~IsNull(v)

\* What dict.get returns for a key that is not there.
None == "None"

\* command.get("type")
CommandType(cmd) == Get(cmd, "type", None)

\* A command.get("params") without the default.
CommandParamsOrNone(cmd) == Get(cmd, "params", Null)

\* command.get("params", {})
CommandParams(cmd) == Get(cmd, "params", <<>>)

\* The AttributeError of command.get on a value that is not a mapping, as
\* execute_command's except clause returns it.
NotAMapping ==
    [status |-> "error", message |-> "object has no attribute 'get'"]

\* A call given as the decoded value itself: execute_command cannot read
\* type and params from it.
Unusable(call) == "command" \in DOMAIN call /\ ~IsMapping(call.command)

\* The first two statements of execute_command on a call given as the
\* decoded value: the type and the params the dispatch goes on with.
Extracted(call) ==
    IF "command" \in DOMAIN call /\ IsMapping(call.command)
    THEN [type |-> CommandType(call.command),
          params |-> CommandParams(call.command),
          doc |-> call.doc,
          fails |-> call.fails]
    ELSE call

\* What the handler of the call touched.
Touched(call) ==
    IF call.type = "execute_code" THEN StatementsRun(call.params)
    ELSE IF call.type = "get_rhino_objects_with_metadata"
         THEN ObjectsRead(call.doc, call.params)
    ELSE {}

\* ------------------------------------------------- commands and documents
LayerFilters == { <<>>, LayerStar, LayerDot1, Star, LowerLayer, StarOne }
NameFilters == { <<>>, AStar, NameLowerA1 }
IdFilters == { "", "01", "02" }

FilterKeys == { "layer", "name", "short_id" }

\* FilterSpec: each of the three fields is there or not.
FilterSpecs ==
    { [k \in D |-> f[k]] :
        f \in [layer : LayerFilters, name : NameFilters, short_id : IdFilters],
        D \in SUBSET FilterKeys }

\* metadata_fields: <<>> is a missing or empty list.
FieldLists ==
    { <<>>, <<"bbox", "name">>, <<"user_text">>, <<"short_id">>,
      <<"bbox", "colour">>, <<"colour", "id", "weight">> }

Call(t, p, d, f) == [type |-> t, params |-> p, doc |-> d, fails |-> f]

ScriptCalls ==
    { Call("execute_code", [code |-> c], {}, FALSE) : c \in Scripts }

QueryCalls ==
    { Call("get_rhino_objects_with_metadata",
           [filters |-> f, metadata_fields |-> m], d, FALSE) :
        f \in FilterSpecs, m \in FieldLists, d \in Documents }

\* Queries whose params, or whose filters, are null on the wire.
NullQueryCalls ==
    { Call("get_rhino_objects_with_metadata", p, d, FALSE) :
        p \in {Null} \cup { [filters |-> Null, metadata_fields |-> m] :
                              m \in FieldLists },
        d \in { {}, ObjectPool } }

OtherCalls ==
    { Call(t, <<>>, {}, b) :
        t \in (DispatchTable \cup {"frobnicate"})
                 \ {"execute_code", "get_rhino_objects_with_metadata"},
        b \in BOOLEAN }

\* The types the messages below name.
MessageTypes ==
    { "execute_code", "get_rhino_objects_with_metadata", "get_rhino_layers",
      "capture_rhino_viewport", "frobnicate" }

\* What json.loads may return for a message: a list, a number or null, and
\* objects with and without a type field and a params field.
Decoded ==
    { Null, [json |-> "array"], [json |-> "number"], << >>, [params |-> << >>] }
        \cup { [type |-> t] : t \in MessageTypes }
        \cup { [type |-> t, params |-> << >>] : t \in MessageTypes }

\* Calls given as the decoded value, before type and params are read.
DecodedCalls ==
    { [type |-> "", params |-> << >>, doc |-> d, fails |-> FALSE,
       command |-> v] :
        v \in Decoded, d \in { {}, ObjectPool } }

Calls ==
    ScriptCalls \cup QueryCalls \cup NullQueryCalls \cup OtherCalls
        \cup DecodedCalls

\* A Command has been decoded on a document; nothing else is going on.
HandlerInit ==
    /\ ProxyInit
    /\ HostInit
    /\ hcall \in Calls
    /\ hresp = NoReply
    /\ htrace = {}
    /\ hescaped = FALSE
    /\ NoDocumentOpen

\* The host runs execute_command on the Command.
ExecuteCommandStep ==
    /\ hresp = NoReply
    /\ hresp' = IF Unusable(hcall) THEN NotAMapping
                ELSE Handle(Extracted(hcall))
    /\ htrace' = IF Unusable(hcall) THEN {} ELSE Touched(Extracted(hcall))
    /\ hescaped' = (~Unusable(hcall) /\ Escapes(Extracted(hcall)))
    /\ UNCHANGED <<hcall, hostVars, proxyVars, docVars>>

HandlerNext == ExecuteCommandStep

HandlerSpec == HandlerInit /\ [][HandlerNext]_vars

\* ============================================ the handlers on one document
\* ANNOTATION_LAYER
AnnotationLayer == <<"M", "C", "P">>

\* A bounding box of three points.
Box3 == <<<<0, 0, 0>>, <<1, 1, 1>>, <<2, 2, 2>>>>

\* An object of sc.doc with its geometry's bounding box (<<>> when
\* rs.BoundingBox returns None), and on record the box read when it was
\* last tagged and how often it was tagged.
DocObj(i, n, l, t, st, box) ==
    [id |-> i, name |-> n, layer |-> l, type |-> t, store |-> st,
     box |-> box, tagbox |-> <<>>, tags |-> 0]

\* The document the host starts with: a solid that was never named and a
\* curve without a bounding box that carries a user's own key.
StartDocument ==
    [Objects |-> { DocObj(1, <<>>, Layer1, "Brep", <<>>, Box2),
                   DocObj(2, NameA1, LayerX1, "Curve", [owner |-> "ann"], <<>>) },
     Layers |-> { Layer1, LayerX1 },
     CurrentLayer |-> Layer1]

\* datetime.now().strftime("%d%H%M%S"), for the clock's second.
ShortId(now) == "0" \o ToString(now)

\* "{0}_{1}".format(obj_type, short_id)
AutoName(obj_type, short_id) == <<obj_type, "_", short_id>>

\* sc.doc.Objects.Find(obj_id) and the rs calls that take obj_id find it.
Exists(doc, obj_id) == \E o \in doc.Objects : o.id = obj_id

Find(doc, obj_id) == CHOOSE o \in doc.Objects : o.id = obj_id

\* A tagging that first clears the attribute store.
SetUserTextsFresh(store, user_text_data) == user_text_data

\* for key, value in user_text_data.items(): rs.SetUserText(obj_id, key, ...)
SetUserTexts(store, user_text_data) == user_text_data @@ store

\* _add_rhino_object_metadata(obj_id, name, description) at clock `now`:
\* its Response and the document it leaves.
AddRhinoObjectMetadata(doc, now, obj_id, name, description) ==
    IF ~Exists(doc, obj_id)
    THEN [response |-> [status |-> "error", message |-> "object not found"],
          doc |-> doc]
    ELSE LET o == Find(doc, obj_id)
             short_id == ShortId(now)
             bbox_data == o.box
             new_name == IF name # <<>> THEN name
                         ELSE AutoName(o.type, short_id)
             user_text_data ==
                 [short_id |-> short_id,
                  created_at |-> FloatStr(10 * now),
                  layer |-> o.layer,
                  type |-> o.type,
                  bbox |-> JsonDumps(bbox_data),
                  name |-> new_name]
                   @@ (IF description # "" THEN [description |-> description]
                       ELSE <<>>)
             tagged == [o EXCEPT !.name = new_name,
                                 !.store = SetUserTexts(@, user_text_data),
                                 !.tagbox = bbox_data,
                                 !.tags = @ + 1]
         IN  [response |-> [status |-> "success"],
              doc |-> [doc EXCEPT !.Objects = (@ \ {o}) \cup {tagged}]]

\* The objects the annotation loop gets to: those on the layer asked for,
\* in the table's order, short of the last one when the loop raises there.
Annotated(doc, layer_name, fails) ==
    LET OnLayer(o) == layer_name = <<>> \/ o.layer = layer_name
        targets == SelectSeq(InOrder(doc.Objects), OnLayer)
        reached == IF fails = "dots" /\ targets # <<>>
                   THEN SubSeq(targets, 1, Len(targets) - 1)
                   ELSE targets
        HasBox(o) == o.box # <<>>
    IN  SelectSeq(reached, HasBox)

\* The largest id in the object table.
RECURSIVE MaxId(_)
MaxId(objects) ==
    IF objects = {} THEN 0
    ELSE LET o == CHOOSE q \in objects : TRUE
             rest == MaxId(objects \ {o})
         IN  IF o.id > rest THEN o.id ELSE rest

\* rs.AddTextDot(text, pt): the k-th marker of a call, at the box's corner
\* bbox[1], on the current layer; its own box is that one point over.
TextDot(doc, k, o) ==
    DocObj(MaxId(doc.Objects) + k, <<>>, AnnotationLayer, "TextDot", <<>>,
           <<o.box[2], o.box[2]>>)

\* rs.SetUserText(obj.Id, "short_id", short_id) for an object without one.
WithShortId(o, now) ==
    IF Get(o.store, "short_id", "") # "" THEN o
    ELSE [o EXCEPT !.store = [short_id |-> ShortId(now)] @@ @]

\* The markers that are in the document when _capture_rhino_viewport
\* returns: those of a loop that raised, which never reaches the finally
\* clause that deletes temp_dots.
Leaked(doc, now, params, fails) ==
    LET made == Annotated(doc, Get(params, "layer", <<>>), fails)
    IN  IF fails = "dots"
        THEN { TextDot(doc, k, made[k]) : k \in 1..Len(made) }
        ELSE {}

\* The document _capture_rhino_viewport(params) leaves: the annotation
\* layer exists, the annotated objects have a short_id, the current layer
\* is the original one again.
CaptureDocument(doc, now, params, fails) ==
    LET made == Annotated(doc, Get(params, "layer", <<>>), fails)
        ids == { made[k].id : k \in 1..Len(made) }
    IN  IF ~Get(params, "show_annotations", TRUE) THEN doc
        ELSE [Objects |-> { IF o.id \in ids THEN WithShortId(o, now) ELSE o :
                              o \in doc.Objects }
                            \cup Leaked(doc, now, params, fails),
              Layers |-> doc.Layers \cup {AnnotationLayer},
              CurrentLayer |-> doc.CurrentLayer]

\* ------------------------------------------------------------- the steps
DocInit ==
    /\ ProxyInit
    /\ HostInit
    /\ hcall = NoCall /\ hresp = NoReply /\ htrace = {} /\ hescaped = FALSE
    /\ scdoc = StartDocument
    /\ hnow = 1
    /\ hsteps = 0

Bounded ==
    /\ hsteps < MaxDocSteps
    /\ hsteps' = hsteps + 1

\* A step that is not the handling of a Command.
NoCommand ==
    /\ hcall' = NoCall
    /\ hresp' = NoReply
    /\ UNCHANGED <<htrace, hescaped>>

\* The host's clock moves on to the next second.
ClockTick ==
    /\ Bounded
    /\ NoCommand
    /\ hnow' = hnow + 1
    /\ UNCHANGED scdoc
    /\ UNCHANGED <<hostVars, proxyVars>>

\* execute_command on an add_rhino_object_metadata Command.
AddMetadataStep(obj_id, name, description) ==
    /\ Bounded
    /\ LET out == AddRhinoObjectMetadata(scdoc, hnow, obj_id, name, description)
       IN  /\ hcall' = Call("add_rhino_object_metadata",
                            [object_id |-> obj_id, name |-> name,
                             description |-> description],
                            scdoc.Objects, FALSE)
           /\ hresp' = out.response
           /\ scdoc' = out.doc
    /\ UNCHANGED <<htrace, hescaped, hnow>>
    /\ UNCHANGED <<hostVars, proxyVars>>

\* execute_command on a get_rhino_objects_with_metadata Command.
QueryStep(params) ==
    /\ Bounded
    /\ LET call == Call("get_rhino_objects_with_metadata", params,
                        scdoc.Objects, FALSE)
       IN  /\ hcall' = call
           /\ hresp' = Handle(call)
           /\ hescaped' = Escapes(call)
    /\ UNCHANGED <<htrace, scdoc, hnow>>
    /\ UNCHANGED <<hostVars, proxyVars>>

\* execute_command on a capture_rhino_viewport Command; fails says where
\* the handler raises: "no", "dots" (in the annotation loop) or "capture"
\* (between CaptureToBitmap and the encoding of the image).
CaptureStep(params, fails) ==
    /\ Bounded
    /\ hcall' = Call("capture_rhino_viewport", params, scdoc.Objects, fails)
    /\ hresp' = CaptureRhinoViewport(fails # "no")
    /\ scdoc' = CaptureDocument(scdoc, hnow, params, fails)
    /\ UNCHANGED <<htrace, hescaped, hnow>>
    /\ UNCHANGED <<hostVars, proxyVars>>

\* The user, or a script, makes another layer the current one.
SetCurrentLayer(l) ==
    /\ Bounded
    /\ l \in scdoc.Layers
    /\ l # scdoc.CurrentLayer
    /\ scdoc' = [scdoc EXCEPT !.CurrentLayer = l]
    /\ NoCommand
    /\ UNCHANGED hnow
    /\ UNCHANGED <<hostVars, proxyVars>>

\* The user, or a script, edits an object: its bounding box gets a point
\* more, and a key of the user's own is written to its store.
EditObject(obj_id) ==
    /\ Bounded
    /\ Exists(scdoc, obj_id)
    /\ LET o == Find(scdoc, obj_id)
           edited == [o EXCEPT !.box = Box3,
                               !.store = [owner |-> "bob"] @@ @]
       IN  /\ edited # o
           /\ scdoc' = [scdoc EXCEPT !.Objects = (@ \ {o}) \cup {edited}]
    /\ NoCommand
    /\ UNCHANGED hnow
    /\ UNCHANGED <<hostVars, proxyVars>>

\* The params of the commands sent to the document.
TagIds == { 0, 1, 2 }
TagNames == { <<>>, NameB1 }
TagDescriptions == { "", "a box" }
DocQueries ==
    { [filters |-> f, metadata_fields |-> m] :
        f \in { <<>>, [layer |-> LayerStar] },
        m \in { <<>>, <<"bbox">>, <<"user_text">> } }
CaptureParams ==
    { <<>>, [show_annotations |-> FALSE], [layer |-> Layer1] }
FailurePoints == { "no", "dots", "capture" }

DocNext ==
    \/ ClockTick
    \/ \E i \in TagIds : \E n \in TagNames : \E d \in TagDescriptions :
           AddMetadataStep(i, n, d)
    \/ \E p \in DocQueries : QueryStep(p)
    \/ \E p \in CaptureParams : \E f \in FailurePoints : CaptureStep(p, f)
    \/ \E l \in { Layer1, LayerX1, AnnotationLayer } : SetCurrentLayer(l)
    \/ \E i \in { 1, 2 } : EditObject(i)

DocSpec == DocInit /\ [][DocNext]_vars

\* ================================================================ claims
\* The host is inside the invocation of handler h.
Invoking(h) == cur = h /\ hostpc \in {"exec", "remove"}

\* Handlers made on connection c that are registered or being invoked.
Outstanding(c) ==
    { h \in HandlerIds : Client(h) = c /\ (h \in Range(Idle) \/ Invoking(h)) }

\* The step in which the handler thread of c takes seg from its socket.
Receives(c, seg) ==
    /\ hpc[c] = "recv"
    /\ clientOpen[c]
    /\ inq[c] # <<>>
    /\ Head(inq[c]) = seg
    /\ hpc'[c] # "recv"

\* The step in which the host finishes execute_command(arg) for a handler
\* of connection c and runs its sends.
Answers(c) ==
    /\ hostpc = "exec"
    /\ hostpc' = "remove"
    /\ Client(cur) = c

\* ---- C1
\* C1: with two connections that each send one execute_code Command, every
\* Response written to a connection is the one execute_command computes
\* for the Command that arrived on that connection, and each connection
\* eventually has exactly that Response.
C1_OwnResponse ==
    /\ [](\A c \in Conn : \A i \in 1..Len(outq[c]) :
              /\ command[c] \in Commands
              /\ outq[c][i] = ExecuteCommand(command[c]))
    /\ \A c \in Conn : <>(Len(outq[c]) = 1)

\* C1 witness: both connections were open at once with different Commands
\* and each holds its own Response.
C1_Witness ==
    /\ command[1] # command[2]
    /\ \A c \in Conn :
           /\ command[c] \in Commands
           /\ outq[c] = <<ExecuteCommand(command[c])>>

\* ---- C2
\* C2: a dispatched command whose type is not in the dispatch table is
\* answered with {error, "Unknown command type"} whenever the sends on its
\* connection cannot raise, and that step leaves the connection as it was:
\* the socket stays open and the handler thread stays where it is in its
\* loop.
C2_UnknownCommandType ==
    [][\A c \in Conn :
         (Answers(c) /\ arg.type \notin DispatchTable /\ ~SendCanFail(c))
            => /\ outq'[c] = Append(outq[c], UnknownCommand)
               /\ clientOpen'[c]
               /\ hpc'[c] = hpc[c]]_vars

\* C2 witness: on one connection the unknown command was answered and a
\* valid command sent after it was dispatched and answered with success.
C2_Witness ==
    \E c \in Conn :
        /\ Len(outq[c]) = 2
        /\ outq[c][1] = UnknownCommand
        /\ outq[c][2] = Response("success", "s1")
        /\ clientOpen[c]

\* ---- C3
\* C3: when the handler thread receives bytes that do not decode, it
\* registers nothing on the Idle event and rebinds no cell; it writes the
\* Invalid JSON format Response and goes back to the head of its loop with
\* the socket open, unless that send raises.
C3_InvalidJson ==
    [][\A c \in Conn : \A seg \in Segments :
         (Receives(c, seg) /\ ~Decodable(seg))
            => /\ Idle' = Idle
               /\ command' = command
               /\ idle_handler' = idle_handler
               /\ \/ /\ outq'[c] = Append(outq[c], InvalidJson)
                     /\ hpc'[c] = "loop"
                     /\ clientOpen'[c]
                  \/ /\ SendCanFail(c)
                     /\ outq'[c] = outq[c]
                     /\ hpc'[c] = "done"]_vars

\* C3 witness: malformed text was answered with the error and the Command
\* that followed on the same connection was dispatched and answered.
C3_Witness ==
    \E c \in Conn :
        /\ Len(outq[c]) = 2
        /\ outq[c][1] = InvalidJson
        /\ outq[c][2] = Response("success", "s1")
        /\ clientOpen[c]

\* ---- C4
\* C4 (as claimed): the bytes of a receive that are a proper prefix of a
\* Command are kept, no Response is written for them and the handler goes
\* on receiving.
C4_PartialIsKept ==
    [][\A c \in Conn : \A seg \in Segments :
         (Receives(c, seg) /\ IsPartial(seg))
            => outq'[c] = outq[c] /\ hpc'[c] # "done"]_vars

\* ---- C5
\* C5 (as claimed): the handler thread of a connection takes bytes from
\* its socket only when no callback of that connection is registered or
\* running.
C5_ReceiveAfterResponse ==
    [][\A c \in Conn : \A seg \in Segments :
         Receives(c, seg) => Outstanding(c) = {}]_vars

\* ---- C6
\* C6 (as claimed): a registered callback is invoked at most once, and
\* once its invocation is over it is not on the Idle event.
C6_InvokedOnce ==
    \A h \in HandlerIds :
        /\ runs[h] <= 1
        /\ (runs[h] = 1 /\ ~Invoking(h)) => h \notin Range(Idle)

\* ---- C7
\* C7 (as claimed): a callback in which a send raised has, once it has
\* returned, been removed from the Idle event.
C7_FailureStillRemoved ==
    \A h \in HandlerIds :
        (raised[h] # "no" /\ ~Invoking(h)) => h \notin Range(Idle)

\* ---- C8
\* C8 (as claimed): a callback whose error Response could not be sent has
\* closed the socket, is invoked that one time only and is no longer on
\* the Idle event after it returned.
C8_NoRetry ==
    \A h \in HandlerIds :
        raised[h] = "closed"
            => /\ ~clientOpen[Client(h)]
               /\ runs[h] = 1
               /\ ~Invoking(h) => h \notin Range(Idle)

\* ---- C9
\* C9: only the host thread is ever inside execute_command, and only while
\* it runs an Idle callback; so at most one command is executing.
C9_HostContextOnly ==
    /\ executing \subseteq {"host"}
    /\ "host" \in executing => hostpc = "exec" /\ cur \in HandlerIds
    /\ Cardinality(executing) <= 1

\* C9 witness: the host is executing a command while the handler thread of
\* that connection is between decoding the next Command and registering
\* its callback.
C9_Witness ==
    /\ "host" \in executing
    /\ \E c \in Conn : hpc[c] \in {"define", "register"}

\* ---- C10
\* C10: whenever a send_command call has ended in a failure the proxy
\* holds no socket and none of its sockets is open, and a call made when
\* the proxy holds no socket never proceeds on a socket that existed
\* before: it either connects a socket made in that call or fails.
C10_DisconnectOnFailure ==
    /\ [](presult = "raised" /\ ppc = "idle" => psocket = 0 /\ popen = {})
    /\ [][(ppc = "idle" /\ presult = "raised" /\ pcalls' = pcalls + 1)
            => \/ psocket' \notin 0..nsock /\ popen' = {psocket'}
               \/ psocket' = 0 /\ presult' = "raised"]_vars

\* C10 witness: a call failed after a connection had been made, and the
\* next call is waiting for its Response on a second socket.
C10_Witness ==
    /\ pcalls = 2
    /\ ppc = "recv"
    /\ psocket = 2
    /\ popen = {2}

\* The step in which send_command's buffer comes to decode to r.
ProxyDecodes(r) ==
    /\ ppc = "recv"
    /\ ResponseDecodable(pbuffer')
    /\ pbuffer'.body = r

\* ---- C11
\* C11: when the buffer of send_command comes to decode to a Response, the
\* call ends in that step: it raises a failure carrying the Response's
\* message when the status is "error", and returns exactly that Response
\* otherwise; no call ever returns a Response whose status is "error".
C11_ErrorStatusRaises ==
    /\ [](presult = "returned" => StatusOf(preturned) # "error")
    /\ [][\A seg \in Replies :
            ProxyDecodes(seg.body)
               => /\ ppc' = "idle"
                  /\ IF StatusOf(seg.body) = "error"
                     THEN /\ presult' = "raised"
                          /\ seg.body.payload # ""
                                => pmessage' = seg.body.payload
                     ELSE /\ presult' = "returned"
                          /\ preturned' = seg.body]_vars

\* C11 witness: on a socket that had already carried a returned Response,
\* a call read an error Response and raised its message.
C11_Witness ==
    /\ pcalls = 2
    /\ nsock = 1
    /\ presult = "raised"
    /\ pmessage = "boom"
    /\ pbuffer = RWhole(CodeError)

\* ---- C12
\* C12: at most one socket of the proxy is open and it is the one the
\* proxy holds; a socket is made only in a call that found none held; a
\* call that follows a call that returned goes on with the same socket;
\* and get_rhino_connection never replaces the instance it once made.
C12_SingleSocket ==
    /\ [](/\ Cardinality(popen) <= 1
          /\ popen \subseteq {psocket}
          /\ ninst <= 1)
    /\ [][/\ nsock' # nsock => psocket = 0
          /\ (presult = "returned" /\ pcalls' = pcalls + 1)
                => psocket' = psocket /\ nsock' = nsock
          /\ rhino_connection # 0
                => rhino_connection' = rhino_connection]_vars

\* C12 witness: three calls returned, all on the first socket of the one
\* instance.
C12_Witness ==
    /\ pcalls = 3
    /\ presult = "returned"
    /\ nsock = 1
    /\ popen = {1}
    /\ psocket = 1
    /\ rhino_connection = 1
    /\ ninst = 1

\* ---- C13
\* C13 (as claimed): a send_command call is never in its receive loop,
\* and never ends, later than Timeout after the loop started.
C13_BoundedWait ==
    pelapsed <= Timeout

\* The handler of a call of this type has returned.
Handled(type) == hcall.type = type /\ hresp # NoReply

\* ---- C14
\* C14 (as claimed): what execute_command returns for a command of the
\* dispatch table, whether its handler succeeded or failed, has a status
\* field that is "success" or "error".
C14_StatusInEveryResponse ==
    (hresp # NoReply /\ hcall.type \in DispatchTable)
        => /\ "status" \in DOMAIN hresp
           /\ hresp.status \in {"success", "error"}

\* The values the print calls of a piece of code were given, in order.
PrintsOf(code) ==
    LET IsPrint(st) == st.op = "print"
        prints == SelectSeq(code, IsPrint)
    IN  [i \in 1..Len(prints) |-> prints[i].v]

\* The position of the first statement that raises, 0 when none does.
FirstRaise(code) ==
    IF \E i \in 1..Len(code) : code[i].op = "raise"
    THEN CHOOSE i \in 1..Len(code) :
             /\ code[i].op = "raise"
             /\ \A j \in 1..(i - 1) : code[j].op # "raise"
    ELSE 0

\* The value of the last assignment to result, <<>> when there is none.
LastResult(code) ==
    LET IsSet(st) == st.op = "result"
        sets == SelectSeq(code, IsSet)
    IN  IF sets = <<>> THEN <<>> ELSE <<sets[Len(sets)].v>>

\* ---- C15
\* C15: for the empty code the execute-code handler returns an error and
\* runs no statement; for a script that does not raise it returns success
\* with the value last assigned to result, or the default text when none
\* was, and the lines of all print calls in call order; for a script that
\* raises it returns an error with the lines of exactly the print calls
\* before the raising statement, in order.
C15_ResultAndPrintedOutput ==
    Handled("execute_code") =>
        LET code == hcall.params.code
            k == FirstRaise(code)
        IN  IF code = <<>>
            THEN hresp.status = "error" /\ htrace = {}
            ELSE IF k = 0
            THEN /\ hresp.status = "success"
                 /\ hresp.result = IF LastResult(code) = <<>>
                                   THEN "Code executed successfully"
                                   ELSE LastResult(code)[1]
                 /\ hresp.printed_output = PrintsOf(code)
            ELSE /\ hresp.status = "error"
                 /\ hresp.printed_output = PrintsOf(SubSeq(code, 1, k - 1))

\* C15 witness: a script printed two lines and then raised with a print
\* call after the raising statement never reached; the error carries the
\* two lines in order.
C15_Witness ==
    /\ Handled("execute_code")
    /\ hcall.params.code = <<PrintStmt("yo"), PrintStmt("hi"), RaiseStmt("boom")>>
    /\ hresp.status = "error"
    /\ hresp.printed_output = <<"yo", "hi">>

\* ---- C16
\* C16 (as claimed): whenever a tool's send_command call has ended, the
\* tool hands its caller a string or an image, and when the call raised,
\* the string "Error <doing X>: <message>".
C16_ToolsNeverRaise ==
    (ppc = "idle" /\ presult \in {"raised", "returned"})
        => /\ ToolResult.kind \in {"string", "image"}
           /\ presult = "raised" => ToolResult = ErrorString(ptool, pmessage)

\* The closed set of metadata field names.
ValidFieldNames ==
    { "id", "name", "type", "layer", "short_id", "created_at", "bbox",
      "description", "user_text" }

\* The ids of the objects in a list-objects Response.
Ids(resp) ==
    IF "objects" \in DOMAIN resp
    THEN { resp.objects[i].id : i \in 1..Len(resp.objects) }
    ELSE {}

\* The ids of a document's objects.
DocIds(doc) == { o.id : o \in doc }

\* The call with its filters cut down to the fields in keys.
Only(call, keys) ==
    [call EXCEPT !.params.filters =
        [k \in keys \cap DOMAIN call.params.filters |-> call.params.filters[k]]]

\* The list-objects handler got into its loop: the field list has no bad
\* names.
Looped ==
    /\ Handled("get_rhino_objects_with_metadata")
    /\ ~QueryRaises(hcall.params)
    /\ Range(hcall.params.metadata_fields) \subseteq ValidFieldNames

\* The list-objects handler returned for a field list without bad names,
\* on a document whose objects can all be read.
Listed ==
    /\ Looped
    /\ BrokenObject \notin hcall.doc

\* ---- C17
\* C17: a list-objects query with a FilterSpec, or none, whose
\* metadata_fields has a name outside the closed set returns an error Response whose available_fields are the
\* nine valid names, with no objects and no count, and no object of the
\* document was read.
C17_InvalidFieldsRejected ==
    (/\ Handled("get_rhino_objects_with_metadata")
     /\ ~QueryRaises(hcall.params)
     /\ ~(Range(hcall.params.metadata_fields) \subseteq ValidFieldNames))
        => /\ hresp.status = "error"
           /\ Range(hresp.available_fields) = ValidFieldNames
           /\ Len(hresp.available_fields) = 9
           /\ "objects" \notin DOMAIN hresp
           /\ "count" \notin DOMAIN hresp
           /\ htrace = {}

\* C17 witness: on the document with all five objects a field list with
\* one valid and one unknown name was rejected.
C17_Witness ==
    /\ Handled("get_rhino_objects_with_metadata")
    /\ ~QueryRaises(hcall.params)
    /\ hcall.doc = ObjectPool
    /\ hcall.params.metadata_fields = <<"bbox", "colour">>
    /\ hresp.status = "error"
    /\ hresp.message = <<"Invalid metadata fields", <<"colour">>>>

\* ---- C18
\* C18: on every document whose objects can be read, list-objects without
\* filters returns one entry per object of the document (count is the
\* number of objects, the ids are the document's ids), and with a single
\* filter field it returns ids that the same query without filters
\* returns.
C18_UnfilteredIsAll ==
    Listed =>
        /\ DOMAIN hcall.params.filters = {}
              => /\ hresp.status = "success"
                 /\ hresp.count = Cardinality(hcall.doc)
                 /\ Len(hresp.objects) = hresp.count
                 /\ Ids(hresp) = DocIds(hcall.doc)
        /\ Cardinality(DOMAIN hcall.params.filters) = 1
              => Ids(hresp) \subseteq Ids(Handle(Only(hcall, {})))

\* C18 witness: the layer filter "Layer*" alone kept four objects of the
\* full document and dropped the one on "MyLayer1".
C18_Witness ==
    /\ Listed
    /\ hcall.doc = ObjectPool
    /\ hcall.params.filters = [layer |-> LayerStar]
    /\ Ids(hresp) = {1, 2, 4, 5}

RECURSIVE GlobMatch(_, _)
\* The filter matches the whole text when "*" stands for any run of
\* characters and every other character for itself in either case.
GlobMatch(f, text) ==
    IF f = <<>> THEN text = <<>>
    ELSE IF Head(f) = "*"
         THEN \/ GlobMatch(Tail(f), text)
              \/ text # <<>> /\ GlobMatch(f, Tail(text))
         ELSE /\ text # <<>>
              /\ Lower(Head(f)) = Lower(Head(text))
              /\ GlobMatch(Tail(f), Tail(text))

\* ---- C19
\* C19 (as claimed): with a layer filter alone, or a name filter alone,
\* list-objects returns exactly the objects whose layer, or name, the
\* filter matches as a whole, in either case, "*" standing for any run of
\* characters and every other character for itself.
C19_WildcardLiteral ==
    Listed =>
        /\ (DOMAIN hcall.params.filters = {"layer"} /\ HasText(hcall.params.filters, "layer"))
              => Ids(hresp) = { o.id : o \in { q \in hcall.doc :
                                   GlobMatch(hcall.params.filters.layer, q.layer) } }
        /\ (DOMAIN hcall.params.filters = {"name"} /\ HasText(hcall.params.filters, "name"))
              => Ids(hresp) = { o.id : o \in { q \in hcall.doc :
                                   GlobMatch(hcall.params.filters.name, q.name) } }

\* The field k of the FilterSpec is the empty text.
IsEmptyField(filters, k) ==
    IF k = "short_id" THEN filters[k] = "" ELSE filters[k] = <<>>

C21_FailingObjectSkipped ==
    (Looped /\ BrokenObject \in hcall.doc)
        => /\ hresp.status = "success"
           /\ {"count", "objects", "available_fields"} \subseteq DOMAIN hresp
           /\ Ids(hresp) = { o.id : o \in { q \in hcall.doc \ {BrokenObject} :
                                Passes(q, hcall.params.filters) } }

\* The object of the called document that an entry of the result is about.
ObjectOf(entry) == CHOOSE o \in hcall.doc : o.id = entry.id

\* The entries of the list-objects result, none when it has no objects.
Entries ==
    IF "objects" \in DOMAIN hresp
    THEN { hresp.objects[i] : i \in 1..Len(hresp.objects) }
    ELSE {}

\* ---- C22
\* C22 (as claimed): an entry of a list-objects result has user_text only
\* when the query had no field list or asked for user_text, and every key
\* of that user_text is a key of the object's store that is none of the
\* nine metadata field names.
C22_UserTextUnrecognized ==
    Looped =>
        \A e \in Entries :
            "user_text" \in DOMAIN e
                => /\ \/ hcall.params.metadata_fields = <<>>
                      \/ "user_text" \in Range(hcall.params.metadata_fields)
                   /\ DOMAIN e.user_text
                         \subseteq DOMAIN ObjectOf(e).store \ ValidFieldNames

\* ---- C23
\* C23: in a list-objects result the metadata of an entry has as keys the
\* requested fields that are keys of the object's store when the query
\* gave a field list, and the stored keys other than id, name, type and
\* layer when it gave none; the entry has no metadata when there is no
\* such key.
C23_MetadataKeys ==
    Looped =>
        \A e \in Entries :
            LET stored == DOMAIN ObjectOf(e).store
                fields == hcall.params.metadata_fields
                keys == IF fields # <<>>
                        THEN { k \in stored : \E i \in 1..Len(fields) : fields[i] = k }
                        ELSE stored \ {"id", "name", "type", "layer"}
            IN  IF keys = {}
                THEN "metadata" \notin DOMAIN e
                ELSE "metadata" \in DOMAIN e /\ DOMAIN e.metadata = keys

\* C23 witness: a query with the field list [bbox, name] returned bbox
\* alone for the object that stores a bbox and no name, and no metadata
\* for the object with an empty store.
C23_Witness ==
    /\ Looped
    /\ hresp.status = "success"
    /\ hcall.params.metadata_fields = <<"bbox", "name">>
    /\ \E e \in Entries : e.id = 1 /\ DOMAIN e.metadata = {"bbox"}
    /\ \E e \in Entries : e.id = 2 /\ "metadata" \notin DOMAIN e

\* What an entry reports for a stored key, in metadata or in user_text.
Reported(e, k) ==
    IF "metadata" \in DOMAIN e /\ k \in DOMAIN e.metadata THEN <<e.metadata[k]>>
    ELSE IF "user_text" \in DOMAIN e /\ k \in DOMAIN e.user_text THEN <<e.user_text[k]>>
    ELSE <<>>

\* ---- C30
\* C30: a list-objects query on a document whose objects can be read
\* succeeds and has an entry with id, name, type and layer for every
\* object that passes the filters, whatever their stores hold; where an
\* entry reports a stored bbox that is not JSON the value is the empty
\* list, where it reports a stored created_at that is not a number the
\* value is 0, and every other stored value is reported as stored.
C30_MalformedDefaults ==
    Listed =>
        /\ hresp.status = "success"
        /\ Ids(hresp) = { o.id : o \in { q \in hcall.doc :
                                           Passes(q, hcall.params.filters) } }
        /\ \A e \in Entries :
               LET store == ObjectOf(e).store
               IN  /\ {"id", "name", "type", "layer"} \subseteq DOMAIN e
                   /\ \A k \in DOMAIN store :
                          Reported(e, k) # <<>> =>
                              IF k = "bbox"
                              THEN ~JsonLoads(store[k]).ok => Reported(e, k)[1] = <<>>
                              ELSE IF k = "created_at"
                              THEN ~Float(store[k]).ok => Reported(e, k)[1] = 0
                              ELSE Reported(e, k)[1] = store[k]

\* C30 witness: the object whose stored bbox is cut off and whose stored
\* created_at is a word was returned with the empty list, with 0, and
\* with its short_id and its owner as stored.
C30_Witness ==
    /\ Listed
    /\ hresp.status = "success"
    /\ hcall.params.metadata_fields = <<>>
    /\ \E e \in Entries :
           /\ e.id = 3
           /\ ObjectOf(e).store.bbox = CutOffBox
           /\ ObjectOf(e).store.created_at = Soon
           /\ e.metadata.bbox = <<>>
           /\ e.metadata.created_at = 0
           /\ e.metadata.short_id = "02"
           /\ e.metadata.owner = "ann"

\* The recv of connection c's handler thread returns zero bytes: the peer
\* has closed and nothing it sent is left to read.
ZeroLengthReceive(c) ==
    /\ hpc[c] = "recv"
    /\ clientOpen[c]
    /\ inq[c] = <<>>
    /\ ~peerOpen[c]
    /\ hpc'[c] # hpc[c]

\* The callbacks of connection c on the Idle event.
Registered(c, event) ==
    { i \in 1..Len(event) : event[i][1] = c }

\* ---- C27
\* C27: when a recv of a connection's handler thread returns zero bytes,
\* the thread ends with its client socket closed, in that step nothing is
\* put on the Idle event and nothing is written, and the listener and the
\* threads, sockets and unread bytes of the other connections are as
\* before; a thread that has ended stays ended and registers no callback.
C27_ZeroLengthReceive ==
    [][\A c \in Conn :
         /\ ZeroLengthReceive(c)
               => /\ hpc'[c] = "done"
                  /\ ~clientOpen'[c]
                  /\ Idle' = Idle
                  /\ outq' = outq
                  /\ running' = running /\ listening' = listening
                  /\ \A d \in Conn \ {c} :
                         /\ hpc'[d] = hpc[d]
                         /\ clientOpen'[d] = clientOpen[d]
                         /\ inq'[d] = inq[d]
         /\ hpc[c] = "done"
               => /\ hpc'[c] = "done"
                  /\ Cardinality(Registered(c, Idle')) <= Cardinality(Registered(c, Idle))]_vars

\* C27 witness: the peer of the first connection closed without sending
\* anything and that connection's thread has ended with its socket closed,
\* while the server listens and the second connection's thread is in recv
\* on its open socket.
C27_Witness ==
    /\ running /\ listening
    /\ hpc[1] = "done" /\ ~clientOpen[1] /\ ~peerOpen[1] /\ sent[1] = 0
    /\ hpc[2] = "recv" /\ clientOpen[2] /\ peerOpen[2]
    /\ Registered(1, Idle) = {}

\* ---- C29
\* C29 (as claimed): from the moment the host context is handed a Command
\* inside an Idle callback to the moment it is back from it, the host
\* context writes no Response to a socket and closes no socket.
C29_HostNeverSends ==
    [][(hostpc = "exec" /\ hostpc' # "exec")
          => outq' = outq /\ clientOpen' = clientOpen]_vars

\* ---- C28
\* C28 (as claimed): whatever params decoded to, null and a null filters
\* included, what execute_command returns for a command of the dispatch
\* table was returned by the command's handler: no handler raised into
\* execute_command, and an error of the list-objects handler carries the
\* handler's available_fields.
C28_NoHandlerEscapes ==
    (hresp # NoReply /\ hcall.type \in DispatchTable)
        => /\ ~hescaped
           /\ (hcall.type = "get_rhino_objects_with_metadata"
                  /\ hresp.status = "error")
                 => "available_fields" \in DOMAIN hresp

\* ---- C24
\* C24: in the result of a list-objects query with metadata_fields =
\* [bbox] and no filters, every object of the document that add-metadata
\* has tagged has an entry whose metadata holds a bbox with as many points
\* as the bounding box read when the object was last tagged, the very
\* list that was encoded then, and whose user_text, if any, has no bbox.
C24_BboxRoundTrip ==
    (/\ Handled("get_rhino_objects_with_metadata")
     /\ hcall.params.metadata_fields = <<"bbox">>
     /\ hcall.params.filters = <<>>)
        => /\ hresp.status = "success"
           /\ \A o \in hcall.doc :
                  o.tags > 0
                     => \E e \in Entries :
                            /\ e.id = o.id
                            /\ Len(e.metadata.bbox) = Len(o.tagbox)
                            /\ e.metadata.bbox = o.tagbox
                            /\ "user_text" \in DOMAIN e
                                  => "bbox" \notin DOMAIN e.user_text

\* C24 witness: the solid was tagged while its box had two points, then
\* edited to a box of three, and a query for bbox returned the two points
\* read at tagging time.
C24_Witness ==
    /\ Handled("get_rhino_objects_with_metadata")
    /\ hcall.params.metadata_fields = <<"bbox">>
    /\ hcall.params.filters = <<>>
    /\ \E o \in hcall.doc :
           /\ o.tags = 1 /\ o.tagbox = Box2 /\ o.box = Box3
           /\ \E e \in Entries : e.id = o.id /\ e.metadata.bbox = Box2

\* An add-metadata Command is applied to the document and succeeds.
Tags ==
    /\ hsteps' = hsteps + 1
    /\ hcall'.type = "add_rhino_object_metadata"
    /\ hresp'.status = "success"

\* The keys a tagging call writes.
Written(params) ==
    {"short_id", "created_at", "layer", "type", "bbox", "name"}
        \cup (IF params.description # "" THEN {"description"} ELSE {})

\* ---- C25
\* C25: a successful add-metadata call deletes no key of the object's
\* store and leaves every pair it does not write as it was (a description
\* of an earlier call when it gives none, a user's own key); the object's
\* name is the name given, and without one "{type}_{short_id}" with the
\* short_id the call stored, whatever the name was before; no other object
\* changes.
C25_RetagKeepsKeys ==
    [][Tags =>
         LET params == hcall'.params
             before == Find(scdoc, params.object_id)
             after == Find(scdoc', params.object_id)
         IN  /\ DOMAIN before.store \subseteq DOMAIN after.store
             /\ \A k \in DOMAIN before.store \ Written(params) :
                    after.store[k] = before.store[k]
             /\ after.name = IF params.name # <<>> THEN params.name
                             ELSE AutoName(before.type, after.store.short_id)
             /\ after.store.name = after.name
             /\ scdoc'.Objects \ {after} = scdoc.Objects \ {before}]_vars

\* C25 witness: the curve, which carries a user's key, was tagged with a
\* name and a description and then tagged again with neither; it still
\* has the description and the user's key, and its name is the
\* synthesized one.
C25_Witness ==
    /\ hcall.type = "add_rhino_object_metadata"
    /\ hcall.params = [object_id |-> 2, name |-> <<>>, description |-> ""]
    /\ hresp.status = "success"
    /\ LET o == Find(scdoc, 2)
       IN  /\ o.tags = 2
           /\ Get(o.store, "description", "") = "a box"
           /\ Get(o.store, "owner", "") = "ann"
           /\ o.name = AutoName("Curve", o.store.short_id)
           /\ Find([Objects |-> hcall.doc], 2).name = NameB1

\* The temporary annotation markers in a document.
Markers(doc) == { o \in doc.Objects : o.type = "TextDot" }

\* ---- C26
\* C26 (as claimed): when capture-viewport has returned, with the image
\* or with an error, the document holds no annotation marker the call
\* created and its current layer is the one it was when the call started.
C26_MarkersReleased ==
    [][(hsteps' = hsteps + 1 /\ hcall'.type = "capture_rhino_viewport")
          => /\ Markers(scdoc') \subseteq Markers(scdoc)
             /\ scdoc'.CurrentLayer = scdoc.CurrentLayer]_vars

\* ---- C31
\* C31 (as claimed): when a call of the execute_rhino_code tool has ended
\* on an error Response of the host that carries print lines, every one of
\* those lines is part of the string the tool hands to its caller.
C31_PrintsReachTool ==
    ( /\ ptool = "execute_rhino_code"
      /\ ppc = "idle"
      /\ presult = "raised"
      /\ ResponseDecodable(pbuffer)
      /\ StatusOf(pbuffer.body) = "error"
      /\ PrintedOutput(pbuffer.body) # <<>> )
        => Range(PrintedOutput(pbuffer.body)) \subseteq Range(ToolResult.text)

\* The cells of h's connection hold what they held when h was made: no
\* later Command has been decoded on it since.
Current(h) ==
    /\ idle_handler[Client(h)] = h[2]
    /\ hpc[Client(h)] # "define"

\* ---- C32
\* C32 (as claimed): a callback that the Idle event invokes executes the
\* Command it was made for, and when it returns the handler taken off the
\* Idle event is the callback itself and no other.
C32_OwnCommandOwnRemoval ==
    [][/\ (hostpc = "dispatch" /\ hostpc' = "exec")
             => Current(Head(pending))
       /\ (hostpc = "remove" /\ hostpc' # "remove")
             => Idle' = RemoveLast(Idle, cur)]_vars

\* How often execute_command has been entered for connection c.
Executions(c) ==
    Sum([h \in HandlerIds |-> IF Client(h) = c THEN runs[h] ELSE 0],
        HandlerIds)

\* ---- C33
\* C33 (as claimed): on every connection no more Responses have been
\* written than messages have been received, and execute_command has been
\* entered no more often than Commands have been decoded.
C33_OncePerCommand ==
    \A c \in Conn :
        /\ Len(outq[c]) <= sent[c] - Len(inq[c])
        /\ Executions(c) <= idle_handler[c] + (IF hpc[c] = "define" THEN 1 ELSE 0)

\* ---- C34
\* C34 (as claimed): on a connection whose peer is the proxy, every
\* Response written answers a send_command call that is waiting for it: the
\* connection never carries a Response beyond those of the Commands sent on
\* it, which a later call would read and return as its own.
C34_NoStaleResponse ==
    \A c \in Conn : peerOpen[c] => Len(outq[c]) <= sent[c]

\* The first chunk of a Response of two chunks.
IsFirstChunk(x) == "chunk" \in DOMAIN x /\ x.chunk = 1

\* ---- C35
\* C35 (as claimed): on the stream of a connection whose peer is reading,
\* what follows the first chunk of a Response is the second chunk of that
\* Response: no other Response is written between the two.
C35_NotInterleaved ==
    \A c \in Conn :
        peerOpen[c] =>
            \A i \in 1..(Len(outq[c]) - 1) :
                IsFirstChunk(outq[c][i])
                    => outq[c][i + 1] = Chunk(outq[c][i].response, 2)

\* The accept threads blocked in accept() on the listening socket.
Accepting == { t \in Threads : apc[t] = "accept" }

\* ---- C36
\* C36 (as claimed): after any sequence of start() and stop() calls at
\* most one accept loop is accepting connections, and the one that is
\* accepting is the thread the server holds.
C36_OneAcceptLoop ==
    /\ Cardinality(Accepting) <= 1
    /\ Accepting \subseteq {server_thread}

\* ---- C37
\* C37: whenever the server is not running, which is the state stop() and
\* a start() that failed leave behind, the listening socket is None and so
\* is the reference to the accept thread; and from that state start() can
\* go on to bind and listen again.
C37_StoppedState ==
    ~running
        => /\ ~listening
           /\ server_thread = 0
           /\ starts < MaxStarts => ENABLED (StartServer /\ running')

\* C37 witness: the server has been started, stopped, started again with a
\* new socket and a new accept thread, and stopped again.
C37_Witness ==
    /\ ~running
    /\ ~listening
    /\ server_thread = 0
    /\ starts = 2

\* ---- C38
\* C38: stop() closes no accepted connection and ends no handler thread;
\* while the server stays stopped no handler thread starts a new receive,
\* so it dispatches no more than the Command its pending receive returns,
\* and a handler thread that comes to the head of its loop leaves it and
\* closes its socket.
C38_StopDrains ==
    [][\A c \in Conn :
         /\ (running /\ ~running')
               => clientOpen'[c] = clientOpen[c] /\ hpc'[c] = hpc[c]
         /\ (~running /\ hpc'[c] = "recv") => hpc[c] = "recv"
         /\ (~running /\ ~running' /\ hpc[c] = "loop" /\ hpc'[c] # "loop")
               => hpc'[c] = "done" /\ ~clientOpen'[c]]_vars

\* C38 witness: the server is stopped; a handler thread has registered the
\* callback of one Command and has then ended and closed its socket,
\* though its peer is still there and a further message is waiting unread.
C38_Witness ==
    /\ ~running
    /\ \E c \in Conn :
           /\ hpc[c] = "done"
           /\ ~clientOpen[c]
           /\ peerOpen[c]
           /\ inq[c] # <<>>
           /\ <<c, 1>> \in Range(Idle)

\* ---- C39
\* C39: execute_command on a decoded value that is not a mapping returns
\* an error Response with a message; on a mapping without a type field it
\* returns {error, "Unknown command type"}; and on a mapping with a type
\* but no params field it returns what the dispatch returns for that type
\* with an empty params mapping, with nothing raised on the way.
C39_UnusableCommand ==
    (hresp # NoReply /\ "command" \in DOMAIN hcall)
        => LET c == hcall.command IN
           /\ ~IsMapping(c)
                 => /\ "status" \in DOMAIN hresp /\ hresp.status = "error"
                    /\ "message" \in DOMAIN hresp
           /\ (IsMapping(c) /\ "type" \notin DOMAIN c)
                 => hresp = [status |-> "error",
                             message |-> "Unknown command type"]
           /\ (IsMapping(c) /\ "type" \in DOMAIN c /\ "params" \notin DOMAIN c)
                 => /\ hresp = Handle(Call(c.type, << >>, hcall.doc, hcall.fails))
                    /\ ~hescaped

\* C39 witness: a list-objects Command without a params field was run on
\* the document of five objects and answered with all five.
C39_Witness ==
    /\ hresp # NoReply
    /\ "command" \in DOMAIN hcall
    /\ hcall.command = [type |-> "get_rhino_objects_with_metadata"]
    /\ hcall.doc = ObjectPool
    /\ hresp.status = "success"
    /\ hresp.count = Cardinality(ObjectPool)

====
